---- MODULE Spec2Model ----
(***************************************************************************)
(* A model of SolarLune/resound: the effects (Volume, Pan, Delay, Distort, *)
(* LowpassFilter, HighpassFilter, Bitcrush, PitchShift), the AudioBuffer   *)
(* codec, ChainEffects, DSPChannel and Player.                             *)
(*                                                                         *)
(* Numbers.  The code computes in float64 on samples normalised by         *)
(* math.MaxInt16.  Here a sample is an exact rational <<num, den>> counted *)
(* in int16 steps (the float value times 32767): every effect is linear in *)
(* the samples except Distort, whose threshold and rounding are rescaled   *)
(* accordingly.  Rounding error of float64 is not modelled; the narrowing  *)
(* to int16 in AudioBuffer.Set (truncation toward zero after the clamp)    *)
(* and the two's-complement byte layout are.                               *)
(***************************************************************************)
EXTENDS Integers, Sequences, FiniteSets, TLC

\* ------------------------------------------------------------------ bounds

\* Capacity, in bytes, of the buffer a caller hands to Read.
BufCap == 8

\* Sample rate of the audio context that Delay consults.
SampleRate == 4

\* Capacity, in frames, of the ring given to NewPitchShift.
RingSize == 2

\* Number of chunks fed to an effect in one behaviour.
MaxFeeds == 2

\* Number of SetActive calls on an effect in one behaviour.
MaxToggles == 1

\* The longest list given to ChainEffects, and how many times it is called.
MaxChain == 3

MaxChains == 2

\* How many AddEffect and CopyProperties calls a behaviour makes.
MaxAdds == 2

MaxCopies == 1

\* How many times Set is called on one buffer.
MaxSets == 1

\* ------------------------------------------------------------ program constants

MaxInt16 == 32767

None == "nil"

\* ---------------------------------------------------------------- rationals

Abs(x) == IF x < 0 THEN -x ELSE x

RECURSIVE GCD(_, _)
GCD(a, b) == IF b = 0 THEN a ELSE GCD(b, a % b)

\* The rational n/d in lowest terms with a positive denominator.
Rat(n, d) ==
  LET s == IF d < 0 THEN -1 ELSE 1
      g == GCD(Abs(n), Abs(d))
  IN  <<(s * n) \div g, (s * d) \div g>>

RI(n) == <<n, 1>>

RAdd(a, b) ==
  LET g == GCD(a[2], b[2])
  IN  Rat(a[1] * (b[2] \div g) + b[1] * (a[2] \div g), (a[2] \div g) * b[2])

RNeg(a) == <<-a[1], a[2]>>

RSub(a, b) == RAdd(a, RNeg(b))

RMul(a, b) ==
  LET g1 == GCD(Abs(a[1]), b[2])
      g2 == GCD(Abs(b[1]), a[2])
  IN  Rat((a[1] \div g1) * (b[1] \div g2), (a[2] \div g2) * (b[2] \div g1))

RDiv(a, b) == RMul(a, Rat(b[2], b[1]))

RLt(a, b) == a[1] * b[2] < b[1] * a[2]

RLe(a, b) == a[1] * b[2] <= b[1] * a[2]

RAbs(a) == <<Abs(a[1]), a[2]>>

RMin(a, b) == IF RLt(b, a) THEN b ELSE a

\* Go's conversion of a float to an integer type: truncation toward zero.
RTrunc(a) == IF a[1] < 0 THEN -((-a[1]) \div a[2]) ELSE a[1] \div a[2]

\* math.Round: to the nearest integer, halves away from zero.
RRound(a) ==
  IF a[1] < 0 THEN -((2 * (-a[1]) + a[2]) \div (2 * a[2]))
  ELSE (2 * a[1] + a[2]) \div (2 * a[2])

\* clamp of utils.go and of the effects package.
clamp(v, min, max) ==
  IF RLt(max, v) THEN max ELSE IF RLt(v, min) THEN min ELSE v

\* mix of the effects package: v1 + ((v2 - v1) * perc).
mix(v1, v2, perc) == RAdd(v1, RMul(RSub(v2, v1), perc))

\* ------------------------------------------------------------- AudioBuffer

Byte == 0 .. 255

\* int16(lo) | int16(hi)<<8
ToInt16(lo, hi) ==
  LET u == lo + 256 * hi IN IF u >= 32768 THEN u - 65536 ELSE u

\* byte(v) and byte(v >> 8) of an int16 v.
LoByte(v) == (v % 65536) % 256

HiByte(v) == (v % 65536) \div 256

\* AudioBuffer.Get: the frame at index i (0-based), in int16 steps.
Get(ab, i) ==
  << RI(ToInt16(ab[4 * i + 1], ab[4 * i + 2])),
     RI(ToInt16(ab[4 * i + 3], ab[4 * i + 4])) >>

\* Narrowing without the clamp before it: int16 keeps the low 16 bits.
NarrowUnclamped(v) == RTrunc(v)

\* What AudioBuffer.Set narrows a sample to.
Narrow(v) == RTrunc(clamp(v, RI(-MaxInt16), RI(MaxInt16)))

\* AudioBuffer.Set: the buffer with frame i replaced.
Set(ab, i, l, r) ==
  LET lcc == Narrow(l)
      rcc == Narrow(r)
  IN  [k \in 1 .. Len(ab) |->
         IF k = 4 * i + 1 THEN LoByte(lcc)
         ELSE IF k = 4 * i + 2 THEN HiByte(lcc)
         ELSE IF k = 4 * i + 3 THEN LoByte(rcc)
         ELSE IF k = 4 * i + 4 THEN HiByte(rcc)
         ELSE ab[k]]

\* ----------------------------------------------------------------- effects

Zero == RI(0)

One == RI(1)

ZeroFrame == <<Zero, Zero>>

Kinds ==
  {"Volume", "Pan", "Delay", "Distort", "Lowpass", "Highpass", "Bitcrush",
   "PitchShift"}

\* The zero value of circularBuffer.
ZeroRing == [buffer |-> <<>>, maxSize |-> 0, readIndex |-> Zero, writeIndex |-> 0]

\* An effect struct of the given kind with every field at Go's zero value.
\* One record shape serves all kinds; a kind uses only its own fields.
ZeroEffect(kind) ==
  [kind |-> kind, active |-> FALSE, Source |-> None,
   strength |-> Zero, normalization |-> Zero, pan |-> Zero,
   wait |-> Zero, feedback |-> Zero, crushPercentage |-> Zero, pitch |-> Zero,
   buffer |-> <<>>, prev |-> ZeroFrame, pitchBuffer |-> ZeroRing]

newCircularBuffer(maxSize) ==
  [buffer |-> [k \in 1 .. maxSize |-> ZeroFrame], maxSize |-> maxSize,
   readIndex |-> Zero, writeIndex |-> 0]

NewVolume(source) ==
  [ZeroEffect("Volume") EXCEPT !.Source = source, !.strength = One,
                               !.active = TRUE, !.normalization = One]

NewPan(source) == [ZeroEffect("Pan") EXCEPT !.Source = source, !.active = TRUE]

NewDelay(source) ==
  [ZeroEffect("Delay") EXCEPT !.Source = source, !.wait = Rat(1, 10),
                              !.strength = One, !.feedback = Rat(1, 2),
                              !.active = TRUE]

NewDistort(source) ==
  [ZeroEffect("Distort") EXCEPT !.Source = source, !.active = TRUE]

NewLowpassFilter(source) ==
  [ZeroEffect("Lowpass") EXCEPT !.Source = source, !.strength = Rat(1, 2),
                                !.active = TRUE]

NewHighpassFilter(source) ==
  [ZeroEffect("Highpass") EXCEPT !.Source = source, !.strength = Rat(8, 10),
                                 !.active = TRUE]

NewBitcrush(source) ==
  [ZeroEffect("Bitcrush") EXCEPT !.Source = source, !.active = TRUE,
                                 !.strength = Rat(1, 10)]

NewPitchShift(source, bufferSize) ==
  [ZeroEffect("PitchShift") EXCEPT !.Source = source, !.strength = One,
                                   !.active = TRUE, !.pitch = One,
                                   !.pitchBuffer = newCircularBuffer(bufferSize)]

\* The constructor of each kind, as the readme calls it.
New(kind, source) ==
  CASE kind = "Volume" -> NewVolume(source)
    [] kind = "Pan" -> NewPan(source)
    [] kind = "Delay" -> NewDelay(source)
    [] kind = "Distort" -> NewDistort(source)
    [] kind = "Lowpass" -> NewLowpassFilter(source)
    [] kind = "Highpass" -> NewHighpassFilter(source)
    [] kind = "Bitcrush" -> NewBitcrush(source)
    [] kind = "PitchShift" -> NewPitchShift(source, RingSize)

\* ease.InSine(t, 0, 1, 1) = 1 - cos(t * pi/2), at the strengths the model uses.
EaseInSine(t) ==
  CASE t = Zero -> Zero
    [] t = Rat(2, 3) -> Rat(1, 2)
    [] t = One -> One

\* ease.InExpo(t, 0, 1, 1) = 2^(10(t-1)), and 0 at t = 0.
EaseInExpo(t) ==
  CASE t = Zero -> Zero
    [] t = Rat(1, 10) -> Rat(1, 512)
    [] t = Rat(1, 2) -> Rat(1, 32)
    [] t = One -> One

\* math.Sin(strength * math.Pi / 2), at the strengths the model uses.
SinHalfPi(t) ==
  CASE t = Zero -> Zero
    [] t = Rat(1, 3) -> Rat(1, 2)
    [] t = One -> One

\* The result of an ApplyEffect or Read step: the effect after it, the buffer
\* after it, and whether the step panicked (a Go run-time panic).
Step(e, ab, fault) == [e |-> e, buf |-> ab, fault |-> fault]

\* ---- Volume

VolumePerc(e) ==
  RMul(IF RLe(e.strength, One) THEN EaseInSine(e.strength) ELSE e.strength,
       e.normalization)

RECURSIVE VolumeLoop(_, _, _, _)
VolumeLoop(perc, ab, i, frames) ==
  IF i >= frames THEN ab
  ELSE LET f == Get(ab, i)
       IN  VolumeLoop(perc, Set(ab, i, RMul(f[1], perc), RMul(f[2], perc)),
                      i + 1, frames)

VolumeApplyEffect(e, p, bytesRead) ==
  IF ~e.active THEN Step(e, p, FALSE)
  ELSE Step(e, VolumeLoop(VolumePerc(e), p, 0, bytesRead \div 4), FALSE)

\* ---- Pan

RECURSIVE PanLoop(_, _, _, _, _)
PanLoop(ls, rs, ab, i, frames) ==
  IF i >= frames THEN ab
  ELSE LET f == Get(ab, i)
       IN  PanLoop(ls, rs, Set(ab, i, RMul(f[1], ls), RMul(f[2], rs)),
                   i + 1, frames)

\* PanApplyEffect with the two gains exchanged.
PanApplyEffectSwapped(e, p, bytesRead) ==
  IF ~e.active THEN Step(e, p, FALSE)
  ELSE LET pan == clamp(e.pan, RI(-1), One)
           ls == RMin(RAdd(pan, One), One)
           rs == RMin(RAdd(RNeg(pan), One), One)
       IN  Step([e EXCEPT !.pan = pan], PanLoop(ls, rs, p, 0, bytesRead \div 4),
                FALSE)

PanApplyEffect(e, p, bytesRead) ==
  IF ~e.active THEN Step(e, p, FALSE)
  ELSE LET pan == clamp(e.pan, RI(-1), One)
           ls == RMin(RAdd(RNeg(pan), One), One)
           rs == RMin(RAdd(pan, One), One)
       IN  Step([e EXCEPT !.pan = pan], PanLoop(ls, rs, p, 0, bytesRead \div 4),
                FALSE)

\* ---- Delay

RECURSIVE DelayLoop(_, _, _, _)
DelayLoop(e, ab, i, frames) ==
  IF i >= frames THEN Step(e, ab, FALSE)
  ELSE LET f == Get(ab, i)
           has == Len(e.buffer) > 0
           bl == IF has THEN RAdd(f[1], RMul(e.buffer[1][1], e.feedback)) ELSE f[1]
           br == IF has THEN RAdd(f[2], RMul(e.buffer[1][2], e.feedback)) ELSE f[2]
           l == IF has THEN mix(f[1], bl, e.strength) ELSE f[1]
           r == IF has THEN mix(f[2], br, e.strength) ELSE f[2]
           appended == Append(e.buffer, <<bl, br>>)
           ring == IF Len(appended) > RTrunc(RMul(RI(SampleRate), e.wait))
                   THEN Tail(appended) ELSE appended
       IN  DelayLoop([e EXCEPT !.buffer = ring],
                     IF e.active THEN Set(ab, i, l, r) ELSE ab, i + 1, frames)

DelayApplyEffect(e, p, bytesRead) == DelayLoop(e, p, 0, bytesRead \div 4)

\* ---- Distort

\* A normalised sample below the threshold is rounded to -1, 0 or 1.
DistortSample(v, crush) ==
  IF RLt(RAbs(v), RMul(crush, RI(MaxInt16)))
  THEN RI(RRound(RDiv(v, RI(MaxInt16))) * MaxInt16)
  ELSE v

RECURSIVE DistortLoop(_, _, _, _)
DistortLoop(crush, ab, i, frames) ==
  IF i >= frames THEN ab
  ELSE LET f == Get(ab, i)
       IN  DistortLoop(crush,
                       Set(ab, i, DistortSample(f[1], crush),
                           DistortSample(f[2], crush)),
                       i + 1, frames)

DistortApplyEffect(e, p, bytesRead) ==
  IF ~e.active \/ RLe(e.crushPercentage, Zero) THEN Step(e, p, FALSE)
  ELSE Step(e, DistortLoop(e.crushPercentage, p, 0, bytesRead \div 4), FALSE)

\* ---- LowpassFilter

RECURSIVE LowpassLoop(_, _, _, _, _)
LowpassLoop(alpha, e, ab, i, frames) ==
  IF i >= frames THEN Step(e, ab, FALSE)
  ELSE LET f == Get(ab, i)
           l == RAdd(RMul(RSub(One, alpha), f[1]), RMul(e.prev[1], alpha))
           r == RAdd(RMul(RSub(One, alpha), f[2]), RMul(e.prev[2], alpha))
       IN  LowpassLoop(alpha, [e EXCEPT !.prev = <<l, r>>], Set(ab, i, l, r),
                       i + 1, frames)

\* LowpassApplyEffect with the weights of the sample and of the history
\* exchanged.
LowpassApplyEffectInverted(e, p, bytesRead) ==
  IF ~e.active THEN Step(e, p, FALSE)
  ELSE LowpassLoop(RSub(One, SinHalfPi(e.strength)), e, p, 0, bytesRead \div 4)

LowpassApplyEffect(e, p, bytesRead) ==
  IF ~e.active THEN Step(e, p, FALSE)
  ELSE LowpassLoop(SinHalfPi(e.strength), e, p, 0, bytesRead \div 4)

\* ---- HighpassFilter

RECURSIVE HighpassLoop(_, _, _, _, _)
HighpassLoop(alpha, e, ab, i, frames) ==
  IF i >= frames THEN Step(e, ab, FALSE)
  ELSE LET f == Get(ab, i)
           nl == RAdd(RMul(RSub(One, alpha), f[1]),
                      RMul(RSub(f[1], e.prev[1]), alpha))
           nr == RAdd(RMul(RSub(One, alpha), f[2]),
                      RMul(RSub(f[2], e.prev[2]), alpha))
       IN  HighpassLoop(alpha, [e EXCEPT !.prev = f], Set(ab, i, nl, nr),
                        i + 1, frames)

\* HighpassApplyEffect that starts every chunk without history.
HighpassApplyEffectFresh(e, p, bytesRead) ==
  IF ~e.active THEN Step(e, p, FALSE)
  ELSE HighpassLoop(SinHalfPi(e.strength), [e EXCEPT !.prev = ZeroFrame], p, 0,
                    bytesRead \div 4)

HighpassApplyEffect(e, p, bytesRead) ==
  IF ~e.active THEN Step(e, p, FALSE)
  ELSE HighpassLoop(SinHalfPi(e.strength), e, p, 0, bytesRead \div 4)

\* ---- Bitcrush

RECURSIVE BitcrushLoop(_, _, _, _)
BitcrushLoop(str, ab, i, bufferSize) ==
  IF i >= bufferSize THEN ab
  ELSE LET ri0 == RTrunc(RMul(RI(RRound(RDiv(RI(i), str))), str))
           ri == IF ri0 >= bufferSize THEN bufferSize - 1 ELSE ri0
           f == Get(ab, ri)
       IN  BitcrushLoop(str, Set(ab, i, f[1], f[2]), i + 1, bufferSize)

BitcrushApplyEffect(e, p, bytesRead) ==
  IF ~e.active \/ e.strength = Zero THEN Step(e, p, FALSE)
  ELSE Step(e,
            BitcrushLoop(RMul(EaseInExpo(e.strength), RI(1000)), p, 0,
                         bytesRead \div 4),
            FALSE)

\* ---- PitchShift

BufferFull(c) == Len(c.buffer) = c.maxSize

\* circularBuffer.write; the caller has checked that writeIndex is in range.
write(c, l, r) ==
  [c EXCEPT !.buffer = [c.buffer EXCEPT ![c.writeIndex + 1] = <<l, r>>],
            !.writeIndex = IF c.writeIndex + 1 >= c.maxSize THEN 0
                           ELSE c.writeIndex + 1]

\* The slot (0-based) that circularBuffer.read(offset) indexes.
readSlot(c, offset) ==
  LET readIndex == RTrunc(c.readIndex) + offset
  IN  IF readIndex >= c.maxSize THEN readIndex - c.maxSize ELSE readIndex

\* circularBuffer.read; the caller has checked that the slot is in range.
read(c, offset) ==
  IF ~BufferFull(c) THEN ZeroFrame ELSE c.buffer[readSlot(c, offset) + 1]

readWriteDistance(c) ==
  LET r == c.readIndex
      w == RI(c.writeIndex)
      m == RI(c.maxSize)
      distance == RAbs(RSub(r, w))
  IN  IF RLt(RDiv(m, RI(2)), distance)
      THEN RMin(RAdd(RAbs(RSub(m, r)), w), RAdd(RAbs(RSub(m, w)), r))
      ELSE distance

incrementRead(c, value) ==
  LET ri == RAdd(c.readIndex, value)
      bufSize == RI(Len(c.buffer))
  IN  [c EXCEPT !.readIndex = IF RLe(bufSize, ri) THEN RSub(ri, bufSize) ELSE ri]

\* One frame of PitchShift.ApplyEffect, for slots that are all in range.
PitchFrame(e, ab, i) ==
  LET f == Get(ab, i)
      c == write(e.pitchBuffer, f[1], f[2])
      t1 == read(c, 0)
      t2 == read(c, c.maxSize \div 2)
      cross == RDiv(readWriteDistance(c), RI(c.maxSize \div 2))
      cross2 == RSub(One, cross)
      fl == RAdd(RMul(t1[1], cross), RMul(t2[1], cross2))
      fr == RAdd(RMul(t1[2], cross), RMul(t2[2], cross2))
  IN  Step([e EXCEPT !.pitchBuffer = incrementRead(c, e.pitch)],
           Set(ab, i, mix(f[1], fl, e.strength), mix(f[2], fr, e.strength)),
           FALSE)

\* The loop of PitchShift.ApplyEffect.  It panics (index out of range) when
\* the write cursor or a tap lies outside the ring.  With a ring of one slot
\* maxSize/2 is 0 and cross is 0/0; the model counts that as a fault as well.
RECURSIVE PitchLoop(_, _, _, _)
PitchLoop(e, ab, i, bufferLength) ==
  IF i >= bufferLength THEN Step(e, ab, FALSE)
  ELSE LET c0 == e.pitchBuffer
           size == Len(c0.buffer)
       IN  IF c0.writeIndex >= size THEN Step(e, ab, TRUE)
           ELSE LET c == write(c0, Zero, Zero)
                IN  IF \/ BufferFull(c) /\ readSlot(c, 0) >= size
                       \/ BufferFull(c) /\ readSlot(c, c.maxSize \div 2) >= size
                       \/ c.maxSize \div 2 = 0
                    THEN Step(e, ab, TRUE)
                    ELSE LET s == PitchFrame(e, ab, i)
                         IN  PitchLoop(s.e, s.buf, i + 1, bufferLength)

\* PitchShift.ApplyEffect without its early return for an inactive effect.
PitchShiftApplyEffectAlways(e, p, bytesRead) ==
  PitchLoop(e, p, 0, bytesRead \div 4)

PitchShiftApplyEffect(e, p, bytesRead) ==
  IF ~e.active THEN Step(e, p, FALSE)
  ELSE PitchLoop(e, p, 0, bytesRead \div 4)

\* ---- the IEffect interface

\* e.ApplyEffect(p, bytesRead), dispatched on the dynamic type.
ApplyEffect(e, p, bytesRead) ==
  CASE e.kind = "Volume" -> VolumeApplyEffect(e, p, bytesRead)
    [] e.kind = "Pan" -> PanApplyEffect(e, p, bytesRead)
    [] e.kind = "Delay" -> DelayApplyEffect(e, p, bytesRead)
    [] e.kind = "Distort" -> DistortApplyEffect(e, p, bytesRead)
    [] e.kind = "Lowpass" -> LowpassApplyEffect(e, p, bytesRead)
    [] e.kind = "Highpass" -> HighpassApplyEffect(e, p, bytesRead)
    [] e.kind = "Bitcrush" -> BitcrushApplyEffect(e, p, bytesRead)
    [] e.kind = "PitchShift" -> PitchShiftApplyEffect(e, p, bytesRead)

\* ---- Clone

VolumeClone(e) ==
  [ZeroEffect("Volume") EXCEPT !.strength = e.strength, !.active = e.active,
                               !.Source = e.Source]

PanClone(e) ==
  [ZeroEffect("Pan") EXCEPT !.pan = e.pan, !.active = e.active,
                            !.Source = e.Source]

DelayClone(e) ==
  [ZeroEffect("Delay") EXCEPT !.wait = e.wait, !.strength = e.strength,
                              !.Source = e.Source, !.feedback = e.feedback,
                              !.active = e.active]

DistortClone(e) ==
  [ZeroEffect("Distort") EXCEPT !.crushPercentage = e.crushPercentage,
                                !.Source = e.Source, !.active = e.active]

LowpassClone(e) ==
  [ZeroEffect("Lowpass") EXCEPT !.strength = e.strength, !.Source = e.Source,
                                !.active = e.active]

HighpassClone(e) ==
  [ZeroEffect("Highpass") EXCEPT !.strength = e.strength, !.Source = e.Source,
                                 !.active = e.active]

BitcrushClone(e) ==
  [ZeroEffect("Bitcrush") EXCEPT !.strength = e.strength, !.active = e.active,
                                 !.Source = e.Source]

PitchShiftClone(e) ==
  [ZeroEffect("PitchShift") EXCEPT !.strength = e.strength, !.pitch = e.pitch,
                                   !.active = e.active, !.Source = e.Source]

Clone(e) ==
  CASE e.kind = "Volume" -> VolumeClone(e)
    [] e.kind = "Pan" -> PanClone(e)
    [] e.kind = "Delay" -> DelayClone(e)
    [] e.kind = "Distort" -> DistortClone(e)
    [] e.kind = "Lowpass" -> LowpassClone(e)
    [] e.kind = "Highpass" -> HighpassClone(e)
    [] e.kind = "Bitcrush" -> BitcrushClone(e)
    [] e.kind = "PitchShift" -> PitchShiftClone(e)

\* ---- setters

SetActive(e, active) == [e EXCEPT !.active = active]

SetSource(e, source) == [e EXCEPT !.Source = source]

\* SetStrength of Volume, Delay, LowpassFilter, HighpassFilter, Bitcrush and
\* PitchShift, each with the clamp that kind applies.
SetStrength(e, strength) ==
  [e EXCEPT !.strength =
     IF e.kind \in {"Volume", "Delay"}
     THEN (IF RLt(strength, Zero) THEN Zero ELSE strength)
     ELSE clamp(strength, Zero, One)]

SetNormalizationFactor(e, normalization) ==
  [e EXCEPT !.normalization = normalization]

\* SetPitch that stores its argument as given.
SetPitchAsGiven(e, pitchFactor) == [e EXCEPT !.pitch = pitchFactor]

SetPan(e, panPercent) == [e EXCEPT !.pan = clamp(panPercent, RI(-1), One)]

SetWait(e, waitTime) ==
  [e EXCEPT !.wait = IF RLt(waitTime, Zero) THEN Zero ELSE waitTime]

SetFeedback(e, feedbackPercentage) ==
  [e EXCEPT !.feedback = clamp(feedbackPercentage, Zero, One)]

SetCrushPercentage(e, strength) ==
  [e EXCEPT !.crushPercentage = clamp(strength, Zero, One)]

SetPitch(e, pitchFactor) ==
  [e EXCEPT !.pitch = IF RLt(pitchFactor, Zero) THEN Zero ELSE pitchFactor]

\* ------------------------------------------------------------ effect Read

\* An upstream io.Reader's answer to one Read: n bytes of data, and err.
Errs == {"nil", "EOF", "ErrUnexpected"}

\* The buffer after the raw stream has written its n bytes into it.
Fill(p, up) == [k \in 1 .. Len(p) |-> IF k <= up.n THEN up.data[k] ELSE p[k]]

\* The outcome of a Read: the effects after it, the buffer after it, the
\* returned (n, err), the fault ("none", "panic" for a run-time panic, "stack"
\* for unbounded recursion), what was called in call order, and the buffer as
\* the raw stream left it.
Outcome(heap, buf, n, err, fault, calls, raw) ==
  [heap |-> heap, buf |-> buf, n |-> n, err |-> err, fault |-> fault,
   calls |-> calls, raw |-> raw]

\* The body of an effect's Read once Source.Read has answered r:
\*   if n, err = Source.Read(p); err != nil { return }; ApplyEffect(p, n); return
Applied(id, r, s) ==
  Outcome([r.heap EXCEPT ![id] = s.e], s.buf, r.n, r.err,
          IF s.fault THEN "panic" ELSE "none", Append(r.calls, id), r.raw)

AfterSourceRead(id, r) ==
  IF r.fault # "none" \/ r.err # "nil" THEN r
  ELSE Applied(id, r, ApplyEffect(r.heap[id], r.buf, r.n))

\* Read of effect id on buffer p, with up the answer of the raw stream at the
\* head of the chain.  A nil Source panics; a cycle of Sources recurses until
\* the stack overflows (depth counts down from more than the number of effects).
\* ApplyEffect of each effect of order in turn, from the i-th on, on the
\* buffer and count of r.
RECURSIVE ApplyAll(_, _, _)
ApplyAll(r, order, i) ==
  IF i > Len(order) \/ r.fault # "none" THEN r
  ELSE ApplyAll(Applied(order[i], r,
                        ApplyEffect(r.heap[order[i]], r.buf, r.n)),
                order, i + 1)

RECURSIVE EffRead(_, _, _, _, _)
EffRead(heap, id, p, up, depth) ==
  LET e == heap[id]
  IN  IF depth = 0 THEN Outcome(heap, p, 0, "nil", "stack", <<>>, p)
      ELSE IF e.Source = None THEN Outcome(heap, p, 0, "nil", "panic", <<>>, p)
      ELSE AfterSourceRead(id,
             IF e.Source = "stream"
             THEN Outcome(heap, Fill(p, up), up.n, up.err, "none",
                          <<"stream">>, Fill(p, up))
             ELSE EffRead(heap, e.Source, p, up, depth - 1))

\* ------------------------------------------------------------------- state

VARIABLES
  fx,         \* the effects that exist: id -> effect struct
  bytes,      \* the buffer the caller hands to Read, as the last call left it
  ret,        \* the last call: what it was, what it returned
  used,       \* how many calls of each bounded kind were made
  players,    \* id -> Player struct
  channels,   \* id -> DSPChannel struct
  streams,    \* the source streams: id -> read position, or bytes and offset;
              \* in |-> the frames delivered so far
  audio,      \* the audio thread inside an ApplyEffect: frame reached, or Idle
  props       \* the AudioProperties map: id -> AudioProperty struct

vars ==
  <<fx, bytes, ret, used, players, channels, streams, audio, props>>

\* The audio thread is in no ApplyEffect.
Idle == [i |-> 0, frames |-> 0]

EffIds == {"e1", "e2", "e3"}

\* Two chunks an upstream may deliver and the stale content of a new buffer,
\* each a byte pattern repeated to the buffer's capacity.
Pattern(q) == [k \in 1 .. BufCap |-> q[((k - 1) % Len(q)) + 1]]

ChunkA == Pattern(<<232, 3, 24, 252, 255, 127, 0, 128>>)

ChunkB == Pattern(<<0, 128, 255, 127, 16, 39, 240, 216>>)

Stale == Pattern(<<7, 9, 250, 255>>)

Counts == {0, 3, 4, BufCap - 1, BufCap}

\* The answers of the raw stream: every count without an error, and an error
\* (io.EOF or another) after no bytes, after one frame and after a full buffer.
Ups ==
  [n : Counts, err : {"nil"}, data : {ChunkA, ChunkB}]
    \cup [n : {0, 4}, err : {"EOF"}, data : {ChunkA}]
    \cup [n : {4, BufCap}, err : {"ErrUnexpected"}, data : {ChunkB}]

NoUp == [n |-> 0, err |-> "nil", data |-> <<>>]

NoAlt == [n |-> 0, err |-> "nil", fault |-> "none", buf |-> <<>>]

\* The record of a call.  pre is the buffer handed in, raw the buffer as the
\* raw stream left it, up the raw stream's answer, calls what ran in order;
\* alt is the second effect's outcome in a paired Read.
Ret(op, who, n, err, fault, up, pre, raw, calls, alt) ==
  [op |-> op, who |-> who, n |-> n, err |-> err, fault |-> fault, up |-> up,
   pre |-> pre, raw |-> raw, calls |-> calls, alt |-> alt]

NoCall == Ret("none", None, 0, "nil", "none", NoUp, <<>>, <<>>, <<>>, NoAlt)

Called(op, who) ==
  Ret(op, who, 0, "nil", "none", NoUp, <<>>, <<>>, <<>>, NoAlt)

\* What has been called so far: counts of calls, log the (id, effect) pairs
\* given to DSPChannel.AddEffect in call order, chain the list last given to
\* ChainEffects.
NoUse ==
  [reads |-> 0, toggles |-> 0, adds |-> 0, copies |-> 0,
   log |-> <<>>, chain |-> <<>>]

Empty == [x \in {} |-> 0]

\* --------------------------------------------- one effect on a raw stream

Half == Rat(1, 2)

\* The effects of the effect specification, each built by its constructor
\* and setters on the raw stream.
Configs ==
  {SetNormalizationFactor(SetStrength(NewVolume("stream"), s), m) :
     s \in {Rat(2, 3), RI(2)}, m \in {One, Half}}
    \cup {SetPan(NewPan("stream"), v) : v \in {Rat(-1, 2), One}}
    \cup {SetFeedback(SetStrength(SetWait(NewDelay("stream"), w), s), Half) :
            w \in {Zero, Rat(1, 4), Half}, s \in {Half, One}}
    \cup {SetCrushPercentage(NewDistort("stream"), c) : c \in {Zero, Half}}
    \cup {SetStrength(NewLowpassFilter("stream"), s) : s \in {Rat(1, 3), One}}
    \cup {SetStrength(NewHighpassFilter("stream"), s) : s \in {Rat(1, 3), One}}
    \cup {SetStrength(NewBitcrush("stream"), s) : s \in {Rat(1, 10), One}}
    \cup {SetStrength(SetPitch(NewPitchShift("stream", RingSize), q), s) :
            q \in {Half, One, RI(RingSize + 1)}, s \in {Half, One}}

\* A newly constructed effect of e's kind given e's parameters by the setters.
FreshLike(e) ==
  LET n == New(e.kind, e.Source)
      c == CASE e.kind = "Volume" ->
                  SetNormalizationFactor(SetStrength(n, e.strength),
                                         e.normalization)
             [] e.kind = "Pan" -> SetPan(n, e.pan)
             [] e.kind = "Delay" ->
                  SetFeedback(SetStrength(SetWait(n, e.wait), e.strength),
                              e.feedback)
             [] e.kind = "Distort" -> SetCrushPercentage(n, e.crushPercentage)
             [] e.kind = "PitchShift" ->
                  SetStrength(SetPitch(NewPitchShift(e.Source,
                                                     e.pitchBuffer.maxSize),
                                       e.pitch),
                              e.strength)
             [] OTHER -> SetStrength(n, e.strength)
  IN  SetActive(c, e.active)

Depth == Cardinality(EffIds) + 1

FxInit ==
  /\ fx \in {[x \in {"e1"} |-> c] : c \in Configs}
  /\ bytes = Stale
  /\ ret = NoCall
  /\ used = NoUse
  /\ players = Empty
  /\ channels = Empty
  /\ streams = Empty
  /\ audio = Idle
  /\ props = Empty

\* The program is running: no earlier call has panicked.
Running == ret.fault = "none"

\* The caller's view after a Read with outcome r.
Returned(id, up, r, alt) ==
  /\ bytes' = r.buf
  /\ ret' = Ret("Read", id, r.n, r.err, r.fault, up, bytes, r.raw, r.calls, alt)

\* e1.Read(bytes), the raw stream answering up.
FxReadDone(up, r) ==
  /\ fx' = r.heap
  /\ Returned("e1", up, r, NoAlt)

FxRead(up) ==
  /\ Running
  /\ "e1" \in DOMAIN fx
  /\ used.reads < MaxFeeds
  /\ FxReadDone(up, EffRead(fx, "e1", bytes, up, Depth))
  /\ used' = [used EXCEPT !.reads = @ + 1]
  /\ UNCHANGED <<players, channels, streams, audio, props>>

\* SetActive on e1, or on the clone and its fresh twin alike.
FxSetActive(active) ==
  /\ Running
  /\ used.toggles < MaxToggles
  /\ fx' = [id \in DOMAIN fx |-> SetActive(fx[id], active)]
  /\ ret' = Called("SetActive", IF "e1" \in DOMAIN fx THEN "e1" ELSE "e2")
  /\ used' = [used EXCEPT !.toggles = @ + 1]
  /\ UNCHANGED <<bytes, players, channels, streams, audio, props>>

\* e2 := e1.Clone(), and e3 a newly constructed effect with e1's parameters.
\* e1 is not used again; the caller takes a new buffer.
FxClone ==
  /\ Running
  /\ "e1" \in DOMAIN fx
  /\ fx' = [id \in {"e2", "e3"} |->
              IF id = "e2" THEN Clone(fx["e1"]) ELSE FreshLike(fx["e1"])]
  /\ bytes' = Stale
  /\ ret' = Called("Clone", "e1")
  /\ used' = NoUse
  /\ UNCHANGED <<players, channels, streams, audio, props>>

\* e2.Read and e3.Read on equal buffers, the raw stream answering both with up.
PairReadDone(up, r2, r3) ==
  /\ fx' = [id \in {"e2", "e3"} |->
              IF id = "e2" THEN r2.heap["e2"] ELSE r3.heap["e3"]]
  /\ Returned("e2", up, r2,
              [n |-> r3.n, err |-> r3.err, fault |-> r3.fault, buf |-> r3.buf])

PairRead(up) ==
  /\ Running
  /\ "e2" \in DOMAIN fx
  /\ used.reads < MaxFeeds
  /\ PairReadDone(up, EffRead(fx, "e2", bytes, up, Depth),
                  EffRead(fx, "e3", bytes, up, Depth))
  /\ used' = [used EXCEPT !.reads = @ + 1]
  /\ UNCHANGED <<players, channels, streams, audio, props>>

FxNext ==
  \/ \E up \in Ups : FxRead(up)
  \/ \E b \in BOOLEAN : FxSetActive(b)
  \/ FxClone
  \/ \E up \in Ups : PairRead(up)

SpecFx == FxInit /\ [][FxNext]_vars

\* ------------------------------------------------ claims about one effect

Reading == ret.op = "Read"

\* C4: when the upstream read fails after delivering n > 0 bytes, an effect's
\* Read returns that error and that n, and the effect's transform has still
\* been applied to the n bytes that were read.
C4_ErrorStillTransforms ==
  [][(ret'.op = "Read" /\ ret'.up.err # "nil" /\ ret'.up.n > 0)
       => /\ ret'.n = ret'.up.n
          /\ ret'.err = ret'.up.err
          /\ bytes' = ApplyEffect(fx[ret'.who], ret'.raw, ret'.up.n).buf]_vars

\* What ApplyEffect would do on a buffer that holds exactly the whole frames
\* among the first n bytes of raw and nothing after them.
OnWholeFrames(e, raw, n) ==
  ApplyEffect(e, SubSeq(raw, 1, 4 * (n \div 4)), 4 * (n \div 4))

C5Holds(after, n, cut, exact) ==
  /\ ret'.fault = "none" /\ ret'.n = n
  /\ \A k \in (cut + 1) .. Len(bytes') : bytes'[k] = ret'.raw[k]
  /\ SubSeq(bytes', 1, cut) = exact.buf
  /\ after = exact.e

\* C5: every Read that obtains n bytes from upstream, into a buffer of any
\* capacity, returns n and transforms exactly the first floor(n/4) frames: the
\* bytes from 4*floor(n/4) on are left as upstream delivered them, and the
\* output and the effect's history are what the transform gives on a buffer
\* holding those floor(n/4) frames and nothing else.
C5_OnlyFramesRead ==
  [][ret'.op = "Read"
       => C5Holds(fx'[ret'.who], ret'.up.n, 4 * (ret'.up.n \div 4),
                  OnWholeFrames(fx[ret'.who], ret'.raw, ret'.up.n))]_vars

\* C6: a Read performed while the effect is inactive still pulls from upstream
\* and returns the chunk byte for byte as upstream delivered it, with
\* upstream's count and error, whatever the effect's kind and history.
C6_InactivePassthrough ==
  (Reading /\ ~fx[ret.who].active)
    => /\ ret.fault = "none"
       /\ ret.calls # <<>> /\ ret.calls[1] = "stream"
       /\ ret.raw = Fill(ret.pre, ret.up)
       /\ bytes = ret.raw
       /\ ret.n = ret.up.n /\ ret.err = ret.up.err

\* An inactive PitchShift or Delay that holds history from earlier frames
\* has read a chunk of at least one frame.
C6_Witness ==
  /\ Reading /\ ~fx[ret.who].active /\ ret.up.n >= 4 /\ ret.up.err = "nil"
  /\ \/ fx[ret.who].kind = "Delay" /\ Len(fx[ret.who].buffer) > 1
     \/ /\ fx[ret.who].kind = "PitchShift"
        /\ fx[ret.who].pitchBuffer.readIndex # Zero

\* C9: a clone and a newly constructed effect with the same parameters, fed
\* the same chunks, return the same counts and errors and produce the same
\* output.
C9_CloneLikeFresh ==
  (Reading /\ ret.who = "e2")
    => /\ ret.alt.buf = bytes
       /\ ret.alt.n = ret.n /\ ret.alt.err = ret.err
       /\ ret.alt.fault = ret.fault

\* ------------------------------------------------------- chained effects

RECURSIVE ChainLoop(_, _, _)
ChainLoop(heap, effects, i) ==
  IF i > Len(effects) THEN heap
  ELSE ChainLoop([heap EXCEPT ![effects[i]] = SetSource(@, effects[i - 1])],
                 effects, i + 1)

\* ChainEffects(effects...) for a list of at least one effect.
ChainEffects(heap, effects) ==
  [heap |-> ChainLoop(heap, effects, 2), out |-> effects[Len(effects)]]

Range(q) == {q[i] : i \in DOMAIN q}

Lists == UNION {[1 .. k -> EffIds] : k \in 1 .. MaxChain}

ChainInit ==
  /\ fx = [id \in EffIds |->
             CASE id = "e1" -> SetStrength(NewVolume("stream"), RI(2))
               [] id = "e2" -> SetStrength(NewLowpassFilter("stream"),
                                           Rat(1, 3))
               [] OTHER -> SetPan(NewPan("stream"), Rat(-1, 2))]
  /\ bytes = Stale
  /\ ret = NoCall
  /\ used = NoUse
  /\ players = Empty
  /\ channels = Empty
  /\ streams = Empty
  /\ audio = Idle
  /\ props = Empty

ChainDone(effects, c) ==
  /\ fx' = c.heap
  /\ ret' = Called("ChainEffects", c.out)
  /\ used' = [used EXCEPT !.adds = @ + 1, !.chain = effects]

Chain(effects) ==
  /\ Running
  /\ used.adds < MaxChains
  /\ ChainDone(effects, ChainEffects(fx, effects))
  /\ UNCHANGED <<bytes, players, channels, streams, audio, props>>

ChainReadDone(id, up, r) ==
  /\ fx' = r.heap
  /\ Returned(id, up, r, NoAlt)

\* Read on the effect the last ChainEffects returned.
ChainRead(up) ==
  /\ Running
  /\ used.chain # <<>>
  /\ used.reads < MaxFeeds
  /\ ChainReadDone(used.chain[Len(used.chain)], up,
                   EffRead(fx, used.chain[Len(used.chain)], bytes, up, Depth))
  /\ used' = [used EXCEPT !.reads = @ + 1]
  /\ UNCHANGED <<players, channels, streams, audio, props>>

ChainNext ==
  \/ \E effects \in Lists : Chain(effects)
  \/ \E up \in Ups : ChainRead(up)

SpecChain == ChainInit /\ [][ChainNext]_vars

\* C7: ChainEffects(e1, ..., ek) sets the upstream of ei to e(i-1) for every
\* i >= 2, leaves the upstream of e1 as it was, changes nothing else and
\* returns ek; every Read on the returned effect pulls one chunk from e1's
\* upstream and applies e1, ..., ek to it in the supplied order.
C7_ChainedInOrder ==
  [][/\ ret'.op = "ChainEffects"
          => /\ \A i \in 2 .. Len(used'.chain) :
                  fx'[used'.chain[i]].Source = used'.chain[i - 1]
             /\ fx'[used'.chain[1]].Source = fx[used'.chain[1]].Source
             /\ \A id \in EffIds :
                  /\ [fx'[id] EXCEPT !.Source = fx[id].Source] = fx[id]
                  /\ id \notin Range(used'.chain) => fx'[id] = fx[id]
             /\ ret'.who = used'.chain[Len(used'.chain)]
             /\ UNCHANGED bytes
     /\ ret'.op = "Read"
          => /\ ret'.fault = "none"
             /\ ret'.calls = <<"stream">> \o used.chain
             /\ ret'.n = ret'.up.n /\ ret'.err = ret'.up.err
             /\ bytes' = ApplyAll(Outcome(fx, ret'.raw, ret'.up.n, "nil",
                                          "none", <<>>, ret'.raw),
                                  used.chain, 1).buf]_vars

\* --------------------------------------------------- players and channels

PlayerIds == {"p1", "p2"}

ChannelIds == {"c1"}

Keys == {"k1", "k2"}

\* m[k] = v on a Go map.
Put(m, k, v) == [x \in DOMAIN m \cup {k} |-> IF x = k THEN v ELSE m[x]]

\* closed and playing are the state of the embedded audio.Player.
NewPlayer(id, sourceStream) ==
  [dspChannel |-> None, Source |-> sourceStream, id |-> id,
   effectOrder |-> <<>>, effects |-> Empty, closed |-> FALSE,
   playing |-> FALSE]

PlayerAddEffect(pl, id, effect) ==
  [pl EXCEPT !.effects = Put(@, id, effect),
             !.effectOrder = Append(@, effect)]

SetDSPChannel(pl, c) == [pl EXCEPT !.dspChannel = c]

\* p.CopyProperties(other): the value is other after the call.
CopyProperties(pl, other) ==
  [other EXCEPT
     !.effects = [x \in DOMAIN other.effects \cup DOMAIN pl.effects |->
                    IF x \in DOMAIN pl.effects THEN pl.effects[x]
                    ELSE other.effects[x]],
     !.effectOrder = @ \o pl.effectOrder,
     !.dspChannel = pl.dspChannel]

NewDSPChannel ==
  [Active |-> TRUE, Effects |-> Empty, EffectOrder |-> <<>>,
   closed |-> FALSE, playingPlayers |-> <<>>]

DSPChannelClose(d) == [d EXCEPT !.closed = TRUE]

\* AddEffect that puts the effect in the place of the one the id held before.
DSPChannelAddEffectInPlace(d, id, effect) ==
  [d EXCEPT !.Effects = Put(@, id, effect),
            !.EffectOrder =
              IF id \in DOMAIN d.Effects
                THEN [i \in DOMAIN @ |->
                        IF @[i] = d.Effects[id] THEN effect ELSE @[i]]
                ELSE Append(@, effect)]

DSPChannelAddEffect(d, id, effect) ==
  [d EXCEPT !.Effects = Put(@, id, effect),
            !.EffectOrder = Append(@, effect)]

\* Player.Read that looks at closed before Active.
GateClosedFirst(pl, chs) ==
  IF pl.dspChannel = None THEN "play"
  ELSE IF chs[pl.dspChannel].closed THEN "closed"
  ELSE IF ~chs[pl.dspChannel].Active THEN "inactive"
  ELSE "play"

\* The branch Player.Read takes on its channel's flags.
Gate(pl, chs) ==
  IF pl.dspChannel = None THEN "play"
  ELSE IF ~chs[pl.dspChannel].Active THEN "inactive"
  ELSE IF chs[pl.dspChannel].closed THEN "closed"
  ELSE "play"

\* The channel's effects ahead of the player's own.
ChannelFirst(pl, chs) ==
  (IF pl.dspChannel = None THEN <<>> ELSE chs[pl.dspChannel].EffectOrder)
    \o pl.effectOrder

\* The effects Player.Read applies, in the order it applies them.
ReadOrder(pl, chs) ==
  pl.effectOrder
    \o (IF pl.dspChannel = None THEN <<>> ELSE chs[pl.dspChannel].EffectOrder)

\* Player.Read from the source's answer on.
AfterPlayerSource(r, order) ==
  IF r.err \notin {"nil", "EOF"} THEN r ELSE ApplyAll(r, order, 1)

PlayerRead(pl, chs, heap, p, up, gate) ==
  IF gate = "inactive" THEN Outcome(heap, p, 0, "nil", "none", <<>>, p)
  ELSE IF gate = "closed" THEN Outcome(heap, p, 0, "EOF", "none", <<>>, p)
  ELSE IF pl.Source = None THEN Outcome(heap, p, 0, "nil", "panic", <<>>, p)
  ELSE AfterPlayerSource(Outcome(heap, Fill(p, up), up.n, up.err, "none",
                                 <<"stream">>, Fill(p, up)),
                         ReadOrder(pl, chs))

\* What Player.Read leaves of the player.
PlayerAfterRead(pl, gate) ==
  IF gate = "closed" THEN [pl EXCEPT !.closed = TRUE, !.Source = None] ELSE pl

PlayerUps ==
  {[n |-> BufCap, err |-> "nil", data |-> ChunkA],
   [n |-> 4, err |-> "EOF", data |-> ChunkA],
   [n |-> 4, err |-> "ErrUnexpected", data |-> ChunkB]}

PlayerInit ==
  /\ fx = [id \in EffIds |->
             CASE id = "e1" ->
                    SetFeedback(SetStrength(SetWait(NewDelay(None),
                                                    Rat(1, 4)),
                                            Half),
                                Zero)
               [] id = "e2" -> SetStrength(NewVolume(None), RI(2))
               [] OTHER -> SetPan(NewPan(None), Rat(-1, 2))]
  /\ bytes = Stale
  /\ ret = NoCall
  /\ used = NoUse
  /\ players = [p \in PlayerIds |-> NewPlayer(p, "stream")]
  /\ channels = [c \in ChannelIds |-> NewDSPChannel]
  /\ streams = [p \in PlayerIds |-> 0]
  /\ audio = Idle
  /\ props = Empty

\* Effects are added and players routed and copied before the first Read.
Setup == Running /\ used.reads = 0

\* The effect is in no list of another player's and in no channel's.
Unshared(p, effect) ==
  /\ \A q \in PlayerIds \ {p} : effect \notin Range(players[q].effectOrder)
  /\ \A c \in ChannelIds : effect \notin Range(channels[c].EffectOrder)

AddToPlayer(p, id, effect) ==
  /\ Setup
  /\ used.adds < MaxAdds
  /\ Unshared(p, effect)
  /\ players' = [players EXCEPT ![p] = PlayerAddEffect(@, id, effect)]
  /\ ret' = NoCall
  /\ used' = [used EXCEPT !.adds = @ + 1]
  /\ UNCHANGED <<fx, bytes, channels, streams, audio, props>>

AddToChannel(c, id, effect) ==
  /\ Setup
  /\ used.adds < MaxAdds
  /\ \A q \in PlayerIds : effect \notin Range(players[q].effectOrder)
  /\ channels' = [channels EXCEPT ![c] = DSPChannelAddEffect(@, id, effect)]
  /\ ret' = NoCall
  /\ used' = [used EXCEPT !.adds = @ + 1,
                          !.log = Append(@, <<id, effect>>)]
  /\ UNCHANGED <<fx, bytes, players, streams, audio, props>>

SetChannel(p, c) ==
  /\ Setup
  /\ players[p].dspChannel # c
  /\ players' = [players EXCEPT ![p] = SetDSPChannel(@, c)]
  /\ ret' = NoCall
  /\ UNCHANGED <<fx, bytes, used, channels, streams, audio, props>>

Copy(p, other) ==
  /\ Setup
  /\ p # other
  /\ used.copies < MaxCopies
  /\ players' = [players EXCEPT ![other] = CopyProperties(players[p], @)]
  /\ ret' = NoCall
  /\ used' = [used EXCEPT !.copies = @ + 1]
  /\ UNCHANGED <<fx, bytes, channels, streams, audio, props>>

\* d.Active = active, the field being public.
SetChannelActive(c, active) ==
  /\ Running
  /\ used.toggles < MaxToggles
  /\ channels[c].Active # active
  /\ channels' = [channels EXCEPT ![c].Active = active]
  /\ ret' = NoCall
  /\ used' = [used EXCEPT !.toggles = @ + 1]
  /\ UNCHANGED <<fx, bytes, players, streams, audio, props>>

CloseChannel(c) ==
  /\ Running
  /\ channels' = [channels EXCEPT ![c] = DSPChannelClose(@)]
  /\ ret' = NoCall
  /\ UNCHANGED <<fx, bytes, used, players, streams, audio, props>>

ReadDone(p, up, gate, r) ==
  /\ fx' = r.heap
  /\ players' = [players EXCEPT ![p] = PlayerAfterRead(@, gate)]
  /\ streams' = [streams EXCEPT ![p] = IF r.calls = <<>> THEN @ ELSE @ + 1]
  /\ Returned(p, up, r, NoAlt)

\* players[p].Read(bytes), the source answering up if it is asked.
Read(p, up) ==
  /\ Running
  /\ used.reads < MaxFeeds
  /\ ReadDone(p, up, Gate(players[p], channels),
              PlayerRead(players[p], channels, fx, bytes, up,
                         Gate(players[p], channels)))
  /\ used' = [used EXCEPT !.reads = @ + 1]
  /\ UNCHANGED <<channels, audio, props>>

PlayerNext ==
  \/ \E p \in PlayerIds, id \in Keys, effect \in EffIds :
       AddToPlayer(p, id, effect)
  \/ \E c \in ChannelIds, id \in Keys, effect \in EffIds :
       AddToChannel(c, id, effect)
  \/ \E p \in PlayerIds, c \in ChannelIds \cup {None} : SetChannel(p, c)
  \/ \E p, other \in PlayerIds : Copy(p, other)
  \/ \E c \in ChannelIds, active \in BOOLEAN : SetChannelActive(c, active)
  \/ \E c \in ChannelIds : CloseChannel(c)
  \/ \E p \in PlayerIds, up \in PlayerUps : Read(p, up)

SpecPlayer == PlayerInit /\ [][PlayerNext]_vars

\* ------------------------------------------- claims about players, channels

Routed(p) == players[p].dspChannel # None

ChannelOf(p) == channels[players[p].dspChannel]

\* C1: once the channel a player is routed through has been closed, whatever
\* else the channel's state, the player's next Read closes the player, sets
\* its Source to nil and returns 0 bytes and io.EOF.
C1_ClosedChannelEndsPlayer ==
  [][\A p \in PlayerIds :
       (ret'.op = "Read" /\ ret'.who = p /\ Routed(p) /\ ChannelOf(p).closed)
         => /\ players'[p].closed
            /\ players'[p].Source = None
            /\ ret'.n = 0 /\ ret'.err = "EOF"]_vars

Succeeds(p) ==
  /\ ret'.op = "Read" /\ ret'.who = p
  /\ Routed(p) => ChannelOf(p).Active /\ ~ChannelOf(p).closed
  /\ players[p].Source # None
  /\ ret'.err \in {"nil", "EOF"}

C3Holds(p, order, r) ==
  /\ ret'.fault = "none"
  /\ ret'.calls = <<"stream">> \o order
  /\ streams'[p] = streams[p] + 1
  /\ ret'.n = ret'.up.n
  /\ bytes' = r.buf
  /\ fx' = r.heap

\* C3: in one successful Player.Read the source is pulled once, then each
\* entry of the player's own list is applied once in AddEffect order, then
\* each entry of the channel's list, if a channel is set, once in AddEffect
\* order; the count returned is the source's.
C3_SourceThenOwnThenChannel ==
  [][\A p \in PlayerIds :
       Succeeds(p)
         => C3Holds(p,
                    players[p].effectOrder
                      \o (IF Routed(p) THEN ChannelOf(p).EffectOrder
                          ELSE <<>>),
                    ApplyAll(Outcome(fx, ret'.raw, ret'.up.n, "nil", "none",
                                     <<>>, ret'.raw),
                             players[p].effectOrder
                               \o (IF Routed(p) THEN ChannelOf(p).EffectOrder
                                   ELSE <<>>),
                             1))]_vars

\* A Read of a full buffer through an effect of the player's own and a
\* different one of its channel's has changed the chunk.
C3_Witness ==
  /\ Reading /\ ret.who \in PlayerIds /\ Routed(ret.who)
  /\ ret.fault = "none" /\ ret.err = "nil" /\ ret.n = BufCap
  /\ Len(ret.calls) = 3
  /\ ret.calls[2] \in Range(players[ret.who].effectOrder)
  /\ ret.calls[3] \in Range(ChannelOf(ret.who).EffectOrder)
  /\ ret.calls[2] # ret.calls[3]
  /\ bytes # ret.raw

LogEffects == [i \in DOMAIN used.log |-> used.log[i][2]]

\* C8: after any sequence of DSPChannel.AddEffect calls the channel's order
\* list is the effects passed, in call order; the map holds for each id the
\* effect of the latest call with that id; and a Read that reaches the
\* channel's effects applies every entry of the list, one replaced in the map
\* included.
C8_ChannelOrderIsCallOrder ==
  \A c \in DOMAIN channels :
    /\ channels[c].EffectOrder = LogEffects
    /\ DOMAIN channels[c].Effects = {used.log[i][1] : i \in DOMAIN used.log}
    /\ \A i \in DOMAIN used.log :
         (\A j \in DOMAIN used.log : j > i => used.log[j][1] # used.log[i][1])
           => channels[c].Effects[used.log[i][1]] = used.log[i][2]
    /\ (/\ Reading /\ ret.calls # <<>> /\ ret.err \in {"nil", "EOF"}
        /\ players[ret.who].dspChannel = c)
         => /\ Len(ret.calls) > Len(used.log)
            /\ SubSeq(ret.calls, Len(ret.calls) - Len(used.log) + 1,
                      Len(ret.calls)) = LogEffects

\* An id has been added twice with different effects, and a Read through the
\* channel has applied both.
C8_Witness ==
  /\ Len(used.log) = 2
  /\ used.log[1][1] = used.log[2][1] /\ used.log[1][2] # used.log[2][2]
  /\ Reading /\ ret.who \in PlayerIds /\ Routed(ret.who)
  /\ ret.calls = <<"stream", used.log[1][2], used.log[2][2]>>
  /\ bytes # ret.raw

\* C10: no effect is in the private lists of two players.
C10_PrivateEffectsUnshared ==
  \A p, q \in DOMAIN players :
    p # q => Range(players[p].effectOrder) \cap Range(players[q].effectOrder)
               = {}

\* ------------------------------------------------------ parameter setters

\* Arguments a caller may give a setter, inside and outside every interval.
Args ==
  {RI(-2), RI(-1), Rat(-1, 2), Zero, Half, One, Rat(3, 2), RI(2)}

\* The setters each kind of effect has.
Setters(kind) ==
  CASE kind = "Volume" -> {"SetStrength"}
    [] kind = "Pan" -> {"SetPan"}
    [] kind = "Delay" -> {"SetWait", "SetStrength", "SetFeedback"}
    [] kind = "Distort" -> {"SetCrushPercentage"}
    [] kind = "PitchShift" -> {"SetStrength", "SetPitch"}
    [] OTHER -> {"SetStrength"}

SettersInit ==
  /\ fx \in {[x \in {"e1"} |-> New(kind, None)] : kind \in Kinds}
  /\ bytes = Stale
  /\ ret = NoCall
  /\ used = NoUse
  /\ players = Empty
  /\ channels = Empty
  /\ streams = Empty
  /\ audio = Idle
  /\ props = Empty

\* A setter of e1 has been called with argument v and has left e1 as e; alt
\* keeps the argument.
SetterDone(name, v, e) ==
  /\ fx' = [fx EXCEPT !["e1"] = e]
  /\ ret' = [Called(name, "e1") EXCEPT !.alt = v]
  /\ UNCHANGED <<bytes, used, players, channels, streams, audio, props>>

CallSetStrength(v) ==
  /\ "SetStrength" \in Setters(fx["e1"].kind)
  /\ SetterDone("SetStrength", v, SetStrength(fx["e1"], v))

CallSetPan(v) ==
  /\ "SetPan" \in Setters(fx["e1"].kind)
  /\ SetterDone("SetPan", v, SetPan(fx["e1"], v))

CallSetWait(v) ==
  /\ "SetWait" \in Setters(fx["e1"].kind)
  /\ SetterDone("SetWait", v, SetWait(fx["e1"], v))

CallSetFeedback(v) ==
  /\ "SetFeedback" \in Setters(fx["e1"].kind)
  /\ SetterDone("SetFeedback", v, SetFeedback(fx["e1"], v))

CallSetCrushPercentage(v) ==
  /\ "SetCrushPercentage" \in Setters(fx["e1"].kind)
  /\ SetterDone("SetCrushPercentage", v, SetCrushPercentage(fx["e1"], v))

CallSetPitch(v) ==
  /\ "SetPitch" \in Setters(fx["e1"].kind)
  /\ SetterDone("SetPitch", v, SetPitch(fx["e1"], v))

SettersNext ==
  \/ \E v \in Args : CallSetStrength(v)
  \/ \E v \in Args : CallSetPan(v)
  \/ \E v \in Args : CallSetWait(v)
  \/ \E v \in Args : CallSetFeedback(v)
  \/ \E v \in Args : CallSetCrushPercentage(v)
  \/ \E v \in Args : CallSetPitch(v)

SpecSetters == SettersInit /\ [][SettersNext]_vars

Within(v, lo, hi) == RLe(lo, v) /\ RLe(v, hi)

AtLeast(v, lo) == RLe(lo, v)

\* C15: after any sequence of setter calls with any arguments no setter has
\* reported an error and every parameter is in its interval: pan in [-1, 1];
\* Volume strength, Delay wait, Delay strength and PitchShift pitch at least
\* 0; Delay feedback, Distort crush percentage and the strength of Lowpass,
\* Highpass, Bitcrush and PitchShift in [0, 1].
C15_ParametersInRange ==
  \A id \in DOMAIN fx :
    /\ ret.err = "nil" /\ ret.fault = "none"
    /\ CASE fx[id].kind = "Pan" -> Within(fx[id].pan, RI(-1), One)
         [] fx[id].kind = "Volume" -> AtLeast(fx[id].strength, Zero)
         [] fx[id].kind = "Delay" ->
              /\ AtLeast(fx[id].wait, Zero)
              /\ AtLeast(fx[id].strength, Zero)
              /\ Within(fx[id].feedback, Zero, One)
         [] fx[id].kind = "Distort" ->
              Within(fx[id].crushPercentage, Zero, One)
         [] fx[id].kind = "PitchShift" ->
              /\ AtLeast(fx[id].pitch, Zero)
              /\ Within(fx[id].strength, Zero, One)
         [] OTHER -> Within(fx[id].strength, Zero, One)

\* A setter was given an argument outside its interval and the parameter
\* sits on the interval's end.
C15_Witness ==
  /\ ret.op = "SetPitch" /\ ret.alt = RI(-2)
  /\ fx["e1"].pitch = Zero
  /\ fx["e1"].strength = One

\* --------------------------------------------------------- AudioBuffer.Set

\* Sample values a caller may pass to Set (1 is full scale), inside and
\* outside [-1, 1].
Samples ==
  {RI(-2), Rat(-32768, 32767), RI(-1), Rat(-1, 2), Rat(-1, 65534), Zero,
   Rat(1, 3), Rat(32766, 32767), One, Rat(40000, 32767), RI(2)}

\* l * math.MaxInt16, the scale Set and Get count samples in.
Scaled(v) == RMul(v, RI(MaxInt16))

SetInit ==
  /\ fx = Empty
  /\ bytes \in {ChunkA, Stale}
  /\ ret = NoCall
  /\ used = NoUse
  /\ players = Empty
  /\ channels = Empty
  /\ streams = Empty
  /\ audio = Idle
  /\ props = Empty

\* AudioBuffer(bytes).Set(i, l, r); alt keeps the arguments.
SetFrame(i, l, r) ==
  /\ used.adds < MaxSets
  /\ bytes' = Set(bytes, i, Scaled(l), Scaled(r))
  /\ ret' = [Called("Set", None) EXCEPT !.pre = bytes, !.alt = <<i, l, r>>]
  /\ used' = [used EXCEPT !.adds = @ + 1]
  /\ UNCHANGED <<fx, players, channels, streams, audio, props>>

SetNext ==
  \E i \in 0 .. (BufCap \div 4) - 1, l \in Samples, r \in Samples :
    SetFrame(i, l, r)

SpecSet == SetInit /\ [][SetNext]_vars

\* The int16 s is v scaled by 32767, clamped to the int16 range and cut to a
\* whole number toward zero.
Quantized(s, v) ==
  /\ -MaxInt16 <= s /\ s <= MaxInt16
  /\ RLt(Zero, v) => s >= 0
  /\ RLt(v, Zero) => s <= 0
  /\ IF RLe(One, RAbs(v)) THEN Abs(s) = MaxInt16
     ELSE /\ RLe(RI(Abs(s)), RAbs(Scaled(v)))
          /\ RLt(RAbs(Scaled(v)), RI(Abs(s) + 1))

\* The int16 whose low byte is at k and whose high byte is at k + 1.
LittleEndian(ab, k) ==
  IF ab[k + 1] >= 128 THEN ab[k] + 256 * ab[k + 1] - 65536
  ELSE ab[k] + 256 * ab[k + 1]

SetWrote(ab, pre, i, l, r) ==
  /\ Quantized(LittleEndian(ab, 4 * i + 1), l)
  /\ Quantized(LittleEndian(ab, 4 * i + 3), r)
  /\ \A k \in 1 .. Len(ab) :
       k \notin (4 * i + 1) .. (4 * i + 4) => ab[k] = pre[k]

\* C16: for every pair of values, those outside [-1, 1] included, Set writes
\* for each channel the value scaled by 32767, clamped into the int16 range
\* and then narrowed: it has the sign of the input and magnitude at most
\* 32767, is stored low byte first at bytes 4i .. 4i+3, and no other byte of
\* the chunk changes.
C16_SetClampsBeforeNarrowing ==
  ret.op = "Set" => SetWrote(bytes, ret.pre, ret.alt[1], ret.alt[2], ret.alt[3])

\* Set was given a value above full scale and one below minus full scale and
\* wrote 32767 and -32767.
C16_Witness ==
  /\ ret.op = "Set" /\ ret.alt = <<1, Rat(40000, 32767), RI(-2)>>
  /\ SubSeq(bytes, 5, 8) = <<255, 127, 1, 128>>

\* ------------------------------------------------------------------------
\* One effect on a raw stream, its parameters set between Reads.

MaxTunes == 2

TuneKinds == {"Volume", "Pan", "Lowpass", "Highpass", "Bitcrush"}

\* The strengths given to SetStrength, per kind.
Strengths(kind) ==
  CASE kind = "Volume" -> {Zero, Rat(2, 3), One, RI(2)}
    [] kind \in {"Lowpass", "Highpass"} -> {Zero, Rat(1, 3), One}
    [] kind = "Bitcrush" -> {Zero, Rat(1, 10), One}
    [] OTHER -> {}

TuneInit ==
  /\ fx \in {[x \in {"e1"} |-> c] : c \in {d \in Configs : d.kind \in TuneKinds}}
  /\ bytes = Stale
  /\ ret = NoCall
  /\ used = NoUse
  /\ players = Empty
  /\ channels = Empty
  /\ streams = Empty
  /\ audio = Idle
  /\ props = Empty

\* A setter of e1 returned, leaving e.
TuneDone(name, v, e) ==
  /\ fx' = [fx EXCEPT !["e1"] = e]
  /\ ret' = [Called(name, "e1") EXCEPT !.alt = v]
  /\ used' = [used EXCEPT !.toggles = @ + 1]
  /\ UNCHANGED <<bytes, players, channels, streams, audio, props>>

TuneStrength(v) ==
  /\ used.toggles < MaxTunes
  /\ v \in Strengths(fx["e1"].kind)
  /\ TuneDone("SetStrength", v, SetStrength(fx["e1"], v))

TuneNormalization(v) ==
  /\ used.toggles < MaxTunes
  /\ fx["e1"].kind = "Volume"
  /\ TuneDone("SetNormalizationFactor", v, SetNormalizationFactor(fx["e1"], v))

TunePan(v) ==
  /\ used.toggles < MaxTunes
  /\ fx["e1"].kind = "Pan"
  /\ TuneDone("SetPan", v, SetPan(fx["e1"], v))

TuneNext ==
  \/ \E up \in Ups : FxRead(up)
  \/ \E v \in UNION {Strengths(k) : k \in TuneKinds} : TuneStrength(v)
  \/ \E v \in {Half, One} : TuneNormalization(v)
  \/ \E v \in Args : TunePan(v)

SpecTune == TuneInit /\ [][TuneNext]_vars

\* The sample s (counted from 0, left and right alternating) of a chunk.
Sample(ab, s) == LittleEndian(ab, 2 * s + 1)

\* The int16 that x, in int16 units and within the range, narrows to: x cut
\* toward zero.
Truncated(out, x) ==
  /\ -MaxInt16 <= out /\ out <= MaxInt16
  /\ RLt(Zero, x) => out >= 0
  /\ RLt(x, Zero) => out <= 0
  /\ IF RLe(RI(MaxInt16), RAbs(x)) THEN Abs(out) = MaxInt16
     ELSE RLe(RI(Abs(out)), RAbs(x)) /\ RLt(RAbs(x), RI(Abs(out) + 1))

\* The gain of Pan for sample s: min(1 - p, 1) left, min(1 + p, 1) right.
PanGain(p, s) ==
  IF s % 2 = 0 THEN RMin(RSub(One, p), One) ELSE RMin(RAdd(One, p), One)

\* An active e1 of the given kinds has transformed the chunk of a Read.
Transformed(kinds) ==
  /\ ret.op = "Read" /\ ret.err = "nil" /\ ret.fault = "none"
  /\ fx["e1"].kind \in kinds
  /\ fx["e1"].active

Panned(out, in, g) ==
  /\ Truncated(out, RMul(RI(in), g))
  /\ g = Zero => out = 0
  /\ g = One /\ in >= -MaxInt16 => out = in
  /\ g = One /\ in < -MaxInt16 => out = -MaxInt16

\* C17: with pan p, Pan multiplies every left sample by min(1 - p, 1) and
\* every right sample by min(1 + p, 1), the product cut toward zero: at p = 0
\* both channels are unchanged, at p = 1 the left channel is 0 and the right
\* unchanged, at p = -1 the right channel is 0 and the left unchanged, where
\* an unchanged sample of -32768 comes out as -32767.
C17_PanGains ==
  Transformed({"Pan"}) =>
    \A s \in 0 .. 2 * (ret.n \div 4) - 1 :
      Panned(Sample(bytes, s), Sample(ret.raw, s), PanGain(fx["e1"].pan, s))

\* C17 as the specification states it: a gain of 1 leaves every sample as it
\* was.
C17_UnchangedAtUnitGain ==
  Transformed({"Pan"}) =>
    \A s \in 0 .. 2 * (ret.n \div 4) - 1 :
      /\ Truncated(Sample(bytes, s),
                   RMul(RI(Sample(ret.raw, s)), PanGain(fx["e1"].pan, s)))
      /\ PanGain(fx["e1"].pan, s) = One => Sample(bytes, s) = Sample(ret.raw, s)

\* Pan at -1 has read two frames whose first left sample was -32768: the
\* right channel is 0, the left is as it was but for that sample.
C17_Witness ==
  /\ Transformed({"Pan"})
  /\ fx["e1"].pan = RI(-1)
  /\ ret.n = BufCap
  /\ ret.raw = ChunkB
  /\ bytes = <<1, 128, 0, 0, 16, 39, 0, 0>>

\* The setting at which an effect is to leave the audio as it is.
Neutral(e) ==
  IF e.kind = "Volume" THEN e.strength = One /\ e.normalization = One
  ELSE e.strength = Zero

NeutralKinds == {"Volume", "Lowpass", "Highpass", "Bitcrush"}

\* C18: at its neutral setting (Volume at strength 1 and normalization 1,
\* Lowpass, Highpass and Bitcrush at strength 0) an active effect returns every
\* sample of the frames it processed within one quantization step of the
\* sample it was given, whatever it has read before.
C18_NeutralIsIdentity ==
  Transformed(NeutralKinds) /\ Neutral(fx["e1"]) =>
    \A s \in 0 .. 2 * (ret.n \div 4) - 1 :
      Abs(Sample(bytes, s) - Sample(ret.raw, s)) <= 1

\* A Lowpass that has read before, now at strength 0, was given two frames,
\* one sample -32768, and returned them with that sample one step off.
C18_Witness ==
  /\ Transformed({"Lowpass"})
  /\ Neutral(fx["e1"])
  /\ used.reads = 2
  /\ ret.pre # Stale
  /\ ret.n = BufCap
  /\ ret.raw = ChunkB
  /\ bytes = <<1, 128, 255, 127, 16, 39, 240, 216>>

\* ------------------------------------------------------------------------
\* A Delay on a raw stream that does not fail, its wait set between Reads.
\* streams.in is every whole frame the stream has delivered so far.

Waits == {Zero, Rat(1, 4), Half}

\* The whole frames among the first n bytes of ab.
Frames(ab, n) ==
  [j \in 1 .. n \div 4 |-> <<Sample(ab, 2 * j - 2), Sample(ab, 2 * j - 1)>>]

DelayInit ==
  /\ fx \in {[x \in {"e1"} |->
               SetFeedback(SetStrength(SetWait(NewDelay("stream"), w), s), f)] :
             w \in Waits \ {Zero}, s \in {Half, One}, f \in {Zero, Half}}
  /\ bytes = Stale
  /\ ret = NoCall
  /\ used = NoUse
  /\ players = Empty
  /\ channels = Empty
  /\ streams = [in |-> <<>>]
  /\ audio = Idle
  /\ props = Empty

DelayRead(up) ==
  /\ used.reads < MaxFeeds
  /\ up.err = "nil"
  /\ FxReadDone(up, EffRead(fx, "e1", bytes, up, Depth))
  /\ used' = [used EXCEPT !.reads = @ + 1]
  /\ streams' = [streams EXCEPT !.in = @ \o Frames(up.data, up.n)]
  /\ UNCHANGED <<players, channels, audio, props>>

DelaySetWait(v) ==
  /\ used.toggles < MaxTunes
  /\ fx' = [fx EXCEPT !["e1"] = SetWait(@, v)]
  /\ ret' = [Called("SetWait", "e1") EXCEPT !.alt = v]
  /\ used' = [used EXCEPT !.toggles = @ + 1]
  /\ UNCHANGED <<bytes, players, channels, streams, audio, props>>

DelayNext ==
  \/ \E up \in Ups : DelayRead(up)
  \/ \E v \in Waits : DelaySetWait(v)

SpecDelay == DelayInit /\ [][DelayNext]_vars

\* The ring length the wait of e asks for: int(sample rate * wait).
RingLength(e) == RTrunc(RMul(RI(SampleRate), e.wait))

\* Frame j of the chunk just read is the k-th frame the stream delivered.
Delivered(j) == Len(streams.in) - ret.n \div 4 + j

\* The sample of channel c that frame k and the frame back frames before it
\* add up to.
WithEcho(k, back, c) ==
  streams.in[k][c] + (IF k > back THEN streams.in[k - back][c] ELSE 0)

\* C19: a Delay with feedback 0 and strength 1, its wait never changed and
\* its ring N frames long, returns each frame as the frame it was given plus
\* the frame the stream delivered exactly N frames earlier, with weight 1.
C19_SingleEcho ==
  /\ Transformed({"Delay"})
  /\ used.toggles = 0
  /\ fx["e1"].feedback = Zero
  /\ fx["e1"].strength = One
  => \A j \in 1 .. ret.n \div 4 : \A c \in 1 .. 2 :
       Truncated(Sample(bytes, 2 * j - 3 + c),
                 RI(WithEcho(Delivered(j), RingLength(fx["e1"]), c)))

\* C20: at the end of every chunk a Delay has processed, its ring holds at
\* most int(wait * sample rate) frames for the wait then in force, also when
\* SetWait lowered the wait before the chunk.
C20_RingFollowsWait ==
  Transformed({"Delay"}) /\ ret.n >= 4 =>
    Len(fx["e1"].buffer) <= RingLength(fx["e1"])

\* ------------------------------------------------------------------------
\* Two threads and no lock: the audio thread is inside e1.Read, one frame of
\* ApplyEffect's loop at a time, while the caller's thread calls e1's setters.
\* audio is the frame the loop has reached; ret keeps the call in progress:
\* pre and raw its buffer, alt the effect as the call found it, calls the
\* values the setters stored since.

Levels == {Zero, Half, One}

RaceInit ==
  /\ fx \in {[x \in {"e1"} |-> c] :
             c \in {SetWait(NewDelay("stream"), Rat(1, 4)),
                    SetPitch(NewPitchShift("stream", RingSize), Half)}}
  /\ bytes = Stale
  /\ ret = NoCall
  /\ used = NoUse
  /\ players = Empty
  /\ channels = Empty
  /\ streams = Empty
  /\ audio = Idle
  /\ props = Empty

InLoop == audio.frames > 0

\* e1.Read: Source.Read has answered up without an error and ApplyEffect
\* starts on the frames read.
RaceBegin(up) ==
  /\ Running
  /\ ~InLoop
  /\ used.reads < MaxFeeds
  /\ up.err = "nil" /\ up.n >= 4
  /\ bytes' = Fill(bytes, up)
  /\ audio' = [i |-> 0, frames |-> up.n \div 4]
  /\ ret' = Ret("ApplyEffect", "e1", up.n, "nil", "none", up, bytes,
                Fill(bytes, up), <<>>, fx["e1"])
  /\ used' = [used EXCEPT !.reads = @ + 1]
  /\ UNCHANGED <<fx, players, channels, streams, props>>

\* One pass of the loop of ApplyEffect, frame i.
OneFrame(e, ab, i) ==
  IF e.kind = "Delay" THEN DelayLoop(e, ab, i, i + 1)
  ELSE PitchLoop(e, ab, i, i + 1)

\* The pass left s; after the last frame, or a panic, Read returns.
FrameDone(s) ==
  /\ fx' = [fx EXCEPT !["e1"] = s.e]
  /\ bytes' = s.buf
  /\ IF s.fault \/ audio.i + 1 = audio.frames
     THEN /\ audio' = Idle
          /\ ret' = [ret EXCEPT !.op = "Read",
                                !.fault = IF s.fault THEN "panic" ELSE "none"]
     ELSE /\ audio' = [audio EXCEPT !.i = @ + 1]
          /\ ret' = ret

RaceFrame ==
  /\ InLoop
  /\ FrameDone(OneFrame(fx["e1"], bytes, audio.i))
  /\ UNCHANGED <<used, players, channels, streams, props>>

\* A setter of e1 on the caller's thread stored what e now holds.
RaceSet(name, v, e) ==
  /\ used.toggles < MaxTunes
  /\ fx' = [fx EXCEPT !["e1"] = e]
  /\ ret' = IF InLoop THEN [ret EXCEPT !.calls = Append(@, <<name, v>>)]
            ELSE Called(name, "e1")
  /\ used' = [used EXCEPT !.toggles = @ + 1]
  /\ UNCHANGED <<bytes, players, channels, streams, audio, props>>

RaceSetStrength(v) ==
  /\ Running
  /\ RaceSet("SetStrength", v, SetStrength(fx["e1"], v))

RaceSetFeedback(v) ==
  /\ Running
  /\ fx["e1"].kind = "Delay"
  /\ RaceSet("SetFeedback", v, SetFeedback(fx["e1"], v))

RaceNext ==
  \/ \E up \in Ups : RaceBegin(up)
  \/ RaceFrame
  \/ \E v \in Levels : RaceSetStrength(v)
  \/ \E v \in Levels : RaceSetFeedback(v)

SpecRace == RaceInit /\ [][RaceNext]_vars

\* The values a parameter held during the call: the one the call found and
\* those the setter stored since.
Seen(name, found) ==
  {found} \cup {ret.calls[k][2] :
                  k \in {j \in DOMAIN ret.calls : ret.calls[j][1] = name}}

\* The chunk as ApplyEffect returns it with strength s and feedback f
\* throughout.
WithOneValue(s, f) ==
  ApplyEffect([ret.alt EXCEPT !.strength = s, !.feedback = f],
              ret.raw, ret.n).buf

\* C11: when setters are called while the audio thread is inside Read, every
\* frame of the chunk is still transformed with one value of each parameter:
\* the chunk returned is the chunk ApplyEffect gives for one strength and one
\* feedback among those the parameters held during the call.
C11_OneValuePerChunk ==
  ret.op = "Read" /\ ret.who = "e1" /\ ret.fault = "none" =>
    \E s \in Seen("SetStrength", ret.alt.strength) :
      \E f \in Seen("SetFeedback", ret.alt.feedback) :
        bytes = WithOneValue(s, f)

\* ------------------------------------------------------------------------
\* AudioProperties: two seekable streams, analysed under three identifiers.
\* streams[s] is a stream, its bytes and its offset; bytes is byteSlice,
\* the slice every Analyze reads into; used.log lists, for each identifier
\* analysed with success and not reset since, the result it was given;
\* used.chain lists every Analyze that scanned a stream none of whose
\* operations failed: the stream, the scan count and the result.

SliceLen == 8
MaxAnalyses == 3
MaxSeeks == 1
MaxResets == 1
Far == 64

DefaultScanCount == 64

ScanCounts == {0, 2}

StreamIds == {"s1", "s2"}

PropKeys == {"k1", "k2", "k3"}

\* Identifiers are taken into use in the order k1, k2, k3.
NextKey(m, id) ==
  \/ id \in DOMAIN m
  \/ id = "k1"
  \/ id = "k2" /\ "k1" \in DOMAIN m
  \/ id = "k3" /\ "k2" \in DOMAIN m

\* The operations of the stream that fail during one Analyze.
Failures ==
  {{}, {"SeekEnd"}, {"SeekEnd", "SeekStart"}, {"SeekStart"}, {"SeekCurrent"},
   {"Read"}}

\* What s1 holds: one quiet frame, or four frames.  s2 holds two loud frames.
Contents == {SubSeq(ChunkA, 1, 4), ChunkA \o ChunkB}

\* AnalysisResult{} and the result for a largest sample of 0: 1.0 / 0 = +Inf.
NoResult == [Normalization |-> Zero]

Inf == <<1, 0>>

newAudioProperty(ref) == [ref |-> ref, result |-> NoResult, analyzed |-> FALSE]

ResetAnalyzation(ap) == [ap EXCEPT !.result = NoResult, !.analyzed = FALSE]

\* AudioProperties.Get: the map after it; the property is allocated on the
\* first call for id.
PropertiesGet(m, id) ==
  IF id \in DOMAIN m THEN m
  ELSE Put(m, id, newAudioProperty(Cardinality(DOMAIN m) + 1))

\* How an Analyze ends: the property, the stream and byteSlice after it, what
\* it returned, and the calls it made on the stream in order.
Analysis(ap, st, slice, result, err, calls) ==
  [ap |-> ap, st |-> st, slice |-> slice, result |-> result, err |-> err,
   calls |-> calls]

\* The largest magnitude among largest and the samples of slice.
RECURSIVE Largest(_, _, _)
Largest(largest, slice, i) ==
  IF i >= Len(slice) \div 4 THEN largest
  ELSE LET f == Get(slice, i)
           la == RAbs(f[1])
           ra == RAbs(f[2])
           l1 == IF RLt(largest, la) THEN la ELSE largest
       IN  Largest(IF RLt(l1, ra) THEN ra ELSE l1, slice, i + 1)

\* After the loop: seek back to the beginning, then store the result.
AfterScan(ap, st, slice, largest, bad, calls) ==
  IF "SeekStart" \in bad
  THEN Analysis(ap, st, slice, NoResult, "ErrSeek",
                Append(calls, <<"SeekStart", st.pos>>))
  ELSE LET result == [Normalization |->
                        IF largest = Zero THEN Inf
                        ELSE RDiv(RI(MaxInt16), largest)]
       IN  Analysis([ap EXCEPT !.result = result, !.analyzed = TRUE],
                    [st EXCEPT !.pos = 0], slice, result, "nil",
                    Append(calls, <<"SeekStart", st.pos>>))

\* The loop of Analyze: read into byteSlice, scan all of it, seek on by
\* seekJump.  The stream's operations named in bad fail, leaving its offset
\* as it was; Read at or past the end gives io.EOF.
RECURSIVE ScanLoop(_, _, _, _, _, _, _, _, _)
ScanLoop(ap, st, slice, largest, pos, seekJump, length, bad, calls) ==
  IF "Read" \in bad \/ st.pos >= Len(st.data)
  THEN AfterScan(ap, st, slice, largest, bad,
                 Append(calls, <<"Read", st.pos>>))
  ELSE LET n == IF Len(st.data) - st.pos < Len(slice)
                THEN Len(st.data) - st.pos ELSE Len(slice)
           filled == [k \in 1 .. Len(slice) |->
                        IF k <= n THEN st.data[st.pos + k] ELSE slice[k]]
           after == [st EXCEPT !.pos = @ + n]
           seen == Largest(largest, filled, 0)
       IN  IF pos + seekJump >= length
           THEN AfterScan(ap, after, filled, seen, bad,
                          Append(calls, <<"Read", st.pos>>))
           ELSE IF "SeekCurrent" \in bad
           THEN Analysis(ap, after, filled, NoResult, "ErrSeek",
                         calls \o <<<<"Read", st.pos>>,
                                    <<"SeekCurrent", after.pos>>>>)
           ELSE ScanLoop(ap, [after EXCEPT !.pos = @ + seekJump], filled, seen,
                         pos + seekJump, seekJump, length, bad,
                         calls \o <<<<"Read", st.pos>>,
                                    <<"SeekCurrent", after.pos>>>>)

\* Analyze once the length is known: seek to the start, ignoring a failure,
\* and scan.
Scan(ap, st, slice, scanCount, length, bad, calls) ==
  ScanLoop(ap, IF "SeekStart" \in bad THEN st ELSE [st EXCEPT !.pos = 0],
           slice, Zero, 0, length \div scanCount, length, bad,
           Append(calls, <<"SeekStart", st.pos>>))

\* Analyze on a property not analysed yet.  Far stands for math.MaxInt64.
AnalyzeAfresh(ap, st, slice, scanCount, bad) ==
  LET count == IF scanCount <= 0 THEN DefaultScanCount ELSE scanCount
  IN  IF "SeekEnd" \notin bad
      THEN Scan(ap, [st EXCEPT !.pos = Len(st.data)], slice, count,
                Len(st.data), bad, <<<<"SeekEnd", st.pos>>>>)
      ELSE IF "SeekStart" \in bad
      THEN Analysis(ap, st, slice, NoResult, "ErrSeek",
                    <<<<"SeekEnd", st.pos>>, <<"SeekStart", st.pos>>>>)
      ELSE Scan(ap, [st EXCEPT !.pos = Far], slice, count, Far, bad,
                <<<<"SeekEnd", st.pos>>, <<"SeekStart", st.pos>>>>)

\* AudioProperty.Analyze.
Analyze(ap, st, slice, scanCount, bad) ==
  IF ap.analyzed THEN Analysis(ap, st, slice, ap.result, "nil", <<>>)
  ELSE AnalyzeAfresh(ap, st, slice, scanCount, bad)

AnalyzeInit ==
  /\ fx = Empty
  /\ bytes = [k \in 1 .. SliceLen |-> 0]
  /\ ret = NoCall
  /\ used = NoUse
  /\ players = Empty
  /\ channels = Empty
  /\ streams \in {[x \in StreamIds |->
                     [data |-> IF x = "s1" THEN d ELSE ChunkB, pos |-> 0]] :
                   d \in Contents}
  /\ audio = Idle
  /\ props = Empty

\* The identifiers memoized once r has returned for id.
Memoized(id, r) ==
  IF r.err = "nil" /\ r.calls # <<>> THEN Append(used.log, <<id, r.result>>)
  ELSE used.log

\* The analyses that scanned without a failure, once r has returned.
Scanned(sid, scanCount, bad, r) ==
  IF r.calls # <<>> /\ bad = {}
  THEN Append(used.chain, [stream |-> sid, scanCount |-> scanCount,
                           result |-> r.result])
  ELSE used.chain

\* props.Get(id).Analyze(stream, scanCount) returned r.  In ret, n is the
\* scan count given, up the operations that failed, pre byteSlice as the call
\* found it, raw the name of the stream, alt the result returned.
AnalyzeDone(id, sid, scanCount, bad, r) ==
  /\ props' = Put(PropertiesGet(props, id), id, r.ap)
  /\ streams' = [streams EXCEPT ![sid] = r.st]
  /\ bytes' = r.slice
  /\ ret' = [Called("Analyze", id) EXCEPT !.n = scanCount, !.err = r.err,
                                          !.up = bad, !.pre = bytes,
                                          !.raw = sid, !.calls = r.calls,
                                          !.alt = r.result]
  /\ used' = [used EXCEPT !.reads = @ + 1, !.log = Memoized(id, r),
                          !.chain = Scanned(sid, scanCount, bad, r)]

CallAnalyze(id, sid, scanCount, bad) ==
  /\ used.reads < MaxAnalyses
  /\ NextKey(props, id)
  /\ bad = {} \/ scanCount > 0
  /\ AnalyzeDone(id, sid, scanCount, bad,
                 Analyze(PropertiesGet(props, id)[id], streams[sid], bytes,
                         scanCount, bad))
  /\ UNCHANGED <<fx, players, channels, audio>>

\* props.Get(id), the caller keeping the pointer.
CallGet(id) ==
  /\ used.copies < MaxCopies
  /\ NextKey(props, id)
  /\ props' = PropertiesGet(props, id)
  /\ ret' = [Called("Get", id) EXCEPT !.alt = PropertiesGet(props, id)[id].ref]
  /\ used' = [used EXCEPT !.copies = @ + 1]
  /\ UNCHANGED <<fx, bytes, players, channels, streams, audio>>

\* props.Get(id).ResetAnalyzation().
CallResetAnalyzation(id) ==
  /\ id \in DOMAIN props
  /\ props[id].analyzed
  /\ used.adds < MaxResets
  /\ props' = [props EXCEPT ![id] = ResetAnalyzation(@)]
  /\ ret' = Called("ResetAnalyzation", id)
  /\ used' = [used EXCEPT !.adds = @ + 1,
                          !.log = SelectSeq(@, LAMBDA e : e[1] # id)]
  /\ UNCHANGED <<fx, bytes, players, channels, streams, audio>>

\* The stream's owner seeks it to offset pos, as playing it does.
StreamSeek(pos) ==
  /\ used.toggles < MaxSeeks
  /\ pos <= Len(streams["s1"].data)
  /\ streams' = [streams EXCEPT !["s1"].pos = pos]
  /\ ret' = Called("Seek", "s1")
  /\ used' = [used EXCEPT !.toggles = @ + 1]
  /\ UNCHANGED <<fx, bytes, players, channels, audio, props>>

AnalyzeNext ==
  \/ \E id \in PropKeys, sid \in StreamIds, c \in ScanCounts,
        bad \in Failures :
       CallAnalyze(id, sid, c, bad)
  \/ \E id \in PropKeys : CallGet(id)
  \/ \E id \in PropKeys : CallResetAnalyzation(id)
  \/ StreamSeek(4)

SpecAnalyze == AnalyzeInit /\ [][AnalyzeNext]_vars

\* C12: Analyze leaves the stream at offset 0 on every exit path: after a
\* fresh scan, a memoized return, a failure to find the length and a failure
\* of a seek in the middle of the scan.
C12_StreamLeftAtStart ==
  ret.op = "Analyze" => streams[ret.raw].pos = 0

\* The step is a call of Analyze for id.
AnalyzeCalled(id) ==
  /\ used'.reads = used.reads + 1
  /\ ret'.op = "Analyze" /\ ret'.who = id

C13Step ==
  /\ \A id \in DOMAIN props :
       ret'.op = "Get" /\ ret'.who = id =>
         ret'.alt = props[id].ref /\ props' = props
  /\ \A k \in DOMAIN used.log :
       AnalyzeCalled(used.log[k][1]) =>
         /\ ret'.err = "nil"
         /\ ret'.alt = used.log[k][2]
         /\ ret'.calls = <<>>
         /\ streams' = streams
  /\ \A id \in PropKeys :
       AnalyzeCalled(id) /\ ret'.err # "nil" =>
         /\ props'[id] = ResetAnalyzation(props'[id])
         /\ used'.log = used.log

\* C13: Get returns the same AudioProperty for the same identifier; once an
\* Analyze of a property has succeeded, every later Analyze of it returns the
\* same result without a call on the stream, until ResetAnalyzation; an
\* Analyze that returns an error memoizes nothing.
C13_MemoizedPerKey == [][C13Step]_vars

\* A second Analyze under k1, the stream moved to offset 4 in between,
\* returned the first one's result and made no call on the stream.
C13_Witness ==
  /\ ret.op = "Analyze" /\ ret.who = "k1" /\ ret.err = "nil"
  /\ ret.calls = <<>>
  /\ used.log = <<<<"k1", ret.alt>>>>
  /\ ret.alt = [Normalization |-> Rat(MaxInt16, MaxInt16 + 1)]
  /\ streams["s1"].pos = 4

\* ------------------------------------------------------------------------
\* The list of playing players of a DSPChannel: two players that are routed
\* to channel c1, played and paused.

MaxPlays == 3

\* Go's copy(dst, src): the first min(len(dst), len(src)) elements of src
\* over those of dst.
GoCopy(dst, src) ==
  [k \in 1 .. Len(dst) |-> IF k <= Len(src) THEN src[k] ELSE dst[k]]

\* DSPChannel.PlayingPlayers: the list it returns.
PlayingPlayers(d) == GoCopy(<<>>, d.playingPlayers)

\* The list without its k-th entry.
Without(list, k) == SubSeq(list, 1, k - 1) \o SubSeq(list, k + 1, Len(list))

\* DSPChannel.clean: from the end of the list, the first entry that is not
\* playing is removed, and no other.
RECURSIVE clean(_, _, _)
clean(d, pls, i) ==
  IF i < 1 THEN d
  ELSE IF ~pls[d.playingPlayers[i]].playing
  THEN [d EXCEPT !.playingPlayers = Without(@, i)]
  ELSE clean(d, pls, i - 1)

addPlayerToList(d, p) == [d EXCEPT !.playingPlayers = Append(@, p)]

PlayingInit ==
  /\ fx = Empty
  /\ bytes = Stale
  /\ ret = NoCall
  /\ used = NoUse
  /\ players = [p \in PlayerIds |-> NewPlayer(p, "stream")]
  /\ channels = [c \in ChannelIds |-> NewDSPChannel]
  /\ streams = [p \in PlayerIds |-> 0]
  /\ audio = Idle
  /\ props = Empty

\* p.SetDSPChannel(c1), before p is first played.
PlayingRoute(p) ==
  /\ players[p].dspChannel = None
  /\ \A k \in DOMAIN used.log : used.log[k] # p
  /\ players' = [players EXCEPT ![p] = SetDSPChannel(@, "c1")]
  /\ ret' = Called("SetDSPChannel", p)
  /\ UNCHANGED <<fx, bytes, used, channels, streams, audio, props>>

\* p.Play().  used.log lists the players played so far.
CallPlay(p) ==
  /\ used.adds < MaxPlays
  /\ channels' =
       IF players[p].dspChannel = None THEN channels
       ELSE [channels EXCEPT !["c1"] =
               addPlayerToList(clean(@, players, Len(@.playingPlayers)), p)]
  /\ players' = [players EXCEPT ![p].playing = TRUE]
  /\ ret' = Called("Play", p)
  /\ used' = [used EXCEPT !.adds = @ + 1, !.log = Append(@, p)]
  /\ UNCHANGED <<fx, bytes, streams, audio, props>>

\* p.Pause() of the embedded audio.Player.
CallPause(p) ==
  /\ players[p].playing
  /\ players' = [players EXCEPT ![p].playing = FALSE]
  /\ ret' = Called("Pause", p)
  /\ UNCHANGED <<fx, bytes, used, channels, streams, audio, props>>

\* c1.PlayingPlayers(); alt is the list returned.
CallPlayingPlayers ==
  /\ ret.op # "PlayingPlayers"
  /\ ret' = [Called("PlayingPlayers", "c1") EXCEPT
               !.alt = PlayingPlayers(channels["c1"])]
  /\ UNCHANGED <<fx, bytes, used, players, channels, streams, audio, props>>

\* DSPChannel.IsPlayingPlayer from the list clean has left.
IsPlayingPlayer(d, pls, id) ==
  \E k \in DOMAIN d.playingPlayers :
    pls[d.playingPlayers[k]].playing /\ pls[d.playingPlayers[k]].id = id

\* c1.IsPlayingPlayer(id); alt is the answer.
CallIsPlayingPlayer(id) ==
  /\ used.copies < MaxCopies
  /\ channels' = [channels EXCEPT !["c1"] =
                    clean(@, players, Len(@.playingPlayers))]
  /\ ret' = [Called("IsPlayingPlayer", id) EXCEPT
               !.alt = IsPlayingPlayer(channels'["c1"], players, id)]
  /\ used' = [used EXCEPT !.copies = @ + 1]
  /\ UNCHANGED <<fx, bytes, players, streams, audio, props>>

PlayingNext ==
  \/ \E p \in PlayerIds : PlayingRoute(p)
  \/ \E p \in PlayerIds : CallPlay(p)
  \/ \E p \in PlayerIds : CallPause(p)
  \/ CallPlayingPlayers
  \/ \E id \in PlayerIds : CallIsPlayingPlayer(id)

SpecPlaying == PlayingInit /\ [][PlayingNext]_vars

\* C14: PlayingPlayers returns a list that holds every player playing
\* through the channel.
C14_ListsEveryPlayingPlayer ==
  ret.op = "PlayingPlayers" =>
    \A p \in PlayerIds :
      players[p].playing /\ players[p].dspChannel = "c1" =>
        \E k \in DOMAIN ret.alt : ret.alt[k] = p

\* ------------------------------------------------------------------------
\* A PitchShift on a raw stream that does not fail, its pitch set between
\* Reads.  streams.in is every whole frame the stream has delivered so far.

RingSizes == {RingSize, RingSize + 1, RingSize + 2}

Pitches == {Zero, Half, One, RI(RingSize + 1), RI(RingSize + 3)}

RingInit ==
  /\ fx \in {[x \in {"e1"} |-> NewPitchShift("stream", n)] : n \in RingSizes}
  /\ bytes = Stale
  /\ ret = NoCall
  /\ used = NoUse
  /\ players = Empty
  /\ channels = Empty
  /\ streams = [in |-> <<>>]
  /\ audio = Idle
  /\ props = Empty

RingSetPitch(v) ==
  /\ Running
  /\ used.toggles < MaxTunes
  /\ fx' = [fx EXCEPT !["e1"] = SetPitch(@, v)]
  /\ ret' = [Called("SetPitch", "e1") EXCEPT !.alt = v]
  /\ used' = [used EXCEPT !.toggles = @ + 1]
  /\ UNCHANGED <<bytes, players, channels, streams, audio, props>>

RingRead(up) ==
  /\ Running
  /\ DelayRead(up)

RingNext ==
  \/ \E up \in Ups : RingRead(up)
  \/ \E v \in Pitches : RingSetPitch(v)

SpecRing == RingInit /\ [][RingNext]_vars

\* The ring of e1 and the number of frames written to it.
Ring == fx["e1"].pitchBuffer

Written == Len(streams.in)

\* C21: after any number of processed frames and for every pitch SetPitch
\* accepts, changed at any time, no Read has panicked, the write cursor is
\* the number of processed frames modulo N and the read cursor lies in
\* [0, N), so that both taps index slots of the ring.
C21_CursorsInRing ==
  /\ ret.fault = "none"
  /\ Ring.writeIndex = Written % Ring.maxSize
  /\ RLe(Zero, Ring.readIndex) /\ RLt(Ring.readIndex, RI(Ring.maxSize))
  /\ readSlot(Ring, 0) \in 0 .. Ring.maxSize - 1
  /\ readSlot(Ring, Ring.maxSize \div 2) \in 0 .. Ring.maxSize - 1

\* The cursors as the crossfade of the next frame finds them: the frame has
\* been written, the read cursor not yet advanced.
AtCrossfade == write(Ring, Zero, Zero)

\* cross of PitchShift.ApplyEffect.
Cross == RDiv(readWriteDistance(AtCrossfade), RI(Ring.maxSize \div 2))

\* C22: for every ring capacity N and every pair of cursors within the ring,
\* the read/write distance lies in [0, N/2] and the crossfade weight cross
\* lies in [0, 1], so that cross and 1 - cross are both in [0, 1].
C22_CrossfadeWeights ==
  RLt(Ring.readIndex, RI(Ring.maxSize)) =>
    /\ RLe(Zero, readWriteDistance(AtCrossfade))
    /\ RLe(RMul(RI(2), readWriteDistance(AtCrossfade)), RI(Ring.maxSize))
    /\ RLe(Zero, Cross) /\ RLe(Cross, One)
    /\ RLe(Zero, RSub(One, Cross)) /\ RLe(RSub(One, Cross), One)

\* C23: from construction until N frames have been written the ring reports
\* that it is not full and both taps read silence; from the N-th written
\* frame on it reports that it is full.
C23_SilentUntilFull ==
  /\ BufferFull(Ring) <=> Written >= Ring.maxSize
  /\ Written < Ring.maxSize =>
       /\ read(Ring, 0) = ZeroFrame
       /\ read(Ring, Ring.maxSize \div 2) = ZeroFrame

\* ------------------------------------------------------------------------
\* A stream of four frames read through e1 in consecutive chunks of any
\* whole number of frames.  streams is the stream: its bytes, the offset
\* reached and the bytes e1 has returned so far.  e0 is e1 as constructed,
\* never read: the effect a single Read of the whole stream would start from.

HistoryConfigs ==
  {SetFeedback(SetStrength(SetWait(NewDelay("stream"), w), s), Half) :
     w \in {Rat(1, 4), Half}, s \in {Half, One}}
    \cup {SetStrength(NewLowpassFilter("stream"), s) : s \in {Rat(1, 3), One}}
    \cup {SetStrength(NewHighpassFilter("stream"), s) : s \in {Rat(1, 3), One}}
    \cup {SetPitch(NewPitchShift("stream", n), q) :
            n \in {RingSize, RingSize + 1}, q \in {Half, One}}

ChunksInit ==
  /\ fx \in {[x \in {"e0", "e1"} |-> c] : c \in HistoryConfigs}
  /\ bytes = Stale
  /\ ret = NoCall
  /\ used = NoUse
  /\ players = Empty
  /\ channels = Empty
  /\ streams \in {[data |-> d, pos |-> 0, out |-> <<>>] :
                    d \in {ChunkA \o ChunkB, ChunkB \o ChunkA}}
  /\ audio = Idle
  /\ props = Empty

\* The stream's answer to a Read into a buffer of n bytes.
NextBytes(n) ==
  [n |-> n, err |-> "nil",
   data |-> SubSeq(streams.data, streams.pos + 1, streams.pos + n)]

\* e1.Read(p) returned r.
ChunkDone(p, up, r) ==
  /\ fx' = r.heap
  /\ bytes' = r.buf
  /\ ret' = Ret("Read", "e1", r.n, r.err, r.fault, up, p, r.raw, r.calls, NoAlt)
  /\ streams' = [streams EXCEPT !.pos = @ + r.n, !.out = @ \o r.buf]

\* e1.Read on a buffer of the given number of frames.
ChunkRead(frames) ==
  /\ Running
  /\ streams.pos + 4 * frames <= Len(streams.data)
  /\ ChunkDone([k \in 1 .. 4 * frames |-> 0], NextBytes(4 * frames),
               EffRead(fx, "e1", [k \in 1 .. 4 * frames |-> 0],
                       NextBytes(4 * frames), Depth))
  /\ used' = [used EXCEPT !.reads = @ + 1]
  /\ UNCHANGED <<players, channels, audio, props>>

ChunksNext == \E frames \in 1 .. (2 * BufCap) \div 4 : ChunkRead(frames)

SpecChunks == ChunksInit /\ [][ChunksNext]_vars

\* ApplyEffect of e0 on the bytes read so far, as one chunk.
AsOneChunk ==
  ApplyEffect(fx["e0"], SubSeq(streams.data, 1, streams.pos), streams.pos)

\* C24: for Delay, Lowpass, Highpass and PitchShift with fixed parameters,
\* the bytes returned for a stream split at any frame boundaries into
\* consecutive chunks, and the history the effect is left with, are those of
\* processing the same frames as one chunk.
C24_ChunkingIndependent ==
  ret.fault = "none" =>
    /\ streams.out = AsOneChunk.buf
    /\ fx["e1"] = AsOneChunk.e

\* A Highpass has returned the four frames of a stream in three chunks.
C24_Witness ==
  /\ fx["e1"].kind = "Highpass"
  /\ fx["e1"].strength = Rat(1, 3)
  /\ used.reads = 3
  /\ streams.pos = Len(streams.data)
  /\ streams.out # streams.data
  /\ streams.out = AsOneChunk.buf

\* An Analyze of a stream none of whose operations failed has scanned and
\* returned a result.
ScanReturned ==
  /\ ret.op = "Analyze" /\ ret.err = "nil" /\ ret.up = {}
  /\ ret.calls # <<>>

\* The offsets at which the last Analyze called Read, in order.
ReadOffsets ==
  LET reads == SelectSeq(ret.calls, LAMBDA e : e[1] = "Read")
  IN  [k \in DOMAIN reads |-> reads[k][2]]

\* The scan count the last Analyze worked with, and the spacing it gives.
ScanCountUsed == IF ret.n <= 0 THEN DefaultScanCount ELSE ret.n

Spacing == Len(streams[ret.raw].data) \div ScanCountUsed

\* The window of the stream at offset off.
Window(data, off) ==
  SubSeq(data, off + 1,
         IF off + SliceLen < Len(data) THEN off + SliceLen ELSE Len(data))

\* The largest magnitude among the windows at the first k multiples of jump.
RECURSIVE Peak(_, _, _)
Peak(data, jump, k) ==
  IF k = 0 THEN Zero
  ELSE Largest(Peak(data, jump, k - 1), Window(data, (k - 1) * jump), 0)

\* C25: for a stream of length L and scan count s, Analyze reads one window
\* at each of the offsets 0, floor(L/s), 2 floor(L/s), ..., s of them and no
\* more, and returns 1 divided by the largest magnitude in those windows.
C25_EvenlySpacedWindows ==
  ScanReturned =>
    /\ Len(ReadOffsets) = ScanCountUsed
    /\ \A k \in DOMAIN ReadOffsets : ReadOffsets[k] = (k - 1) * Spacing
    /\ RMul(ret.alt.Normalization,
            Peak(streams[ret.raw].data, Spacing, ScanCountUsed))
         = RI(MaxInt16)

\* C29: two analyses of the same stream with the same scan count, each
\* scanning afresh, return the same normalization whatever was analysed in
\* between.
C29_ResultFromOwnBytes ==
  \A i, j \in DOMAIN used.chain :
    /\ used.chain[i].stream = used.chain[j].stream
    /\ used.chain[i].scanCount = used.chain[j].scanCount
    => used.chain[i].result = used.chain[j].result

\* ------------------------------------------------------------------------
\* The stream of SpecChunks read through e1 frame by frame or in larger
\* chunks while SetActive is called on e1 between the Reads.  e0 stays as
\* constructed.

HistoryInit == ChunksInit

\* e1.Read on a buffer of the given number of frames.
HistoryRead(frames) ==
  /\ used.reads < MaxFeeds + 1
  /\ ChunkRead(frames)

\* e1.SetActive(active).
HistorySetActive(active) ==
  /\ Running
  /\ used.toggles < MaxToggles
  /\ fx["e1"].active # active
  /\ fx' = [fx EXCEPT !["e1"] = SetActive(@, active)]
  /\ ret' = Called("SetActive", "e1")
  /\ used' = [used EXCEPT !.toggles = @ + 1]
  /\ UNCHANGED <<bytes, players, channels, streams, audio, props>>

HistoryNext ==
  \/ \E frames \in 1 .. 2 : HistoryRead(frames)
  \/ \E active \in BOOLEAN : HistorySetActive(active)

SpecHistory == HistoryInit /\ [][HistoryNext]_vars

\* What an effect keeps between calls of ApplyEffect: the Delay's ring, the
\* filters' previous frame, the PitchShift's ring and cursors.
History(e) == <<e.buffer, e.prev, e.pitchBuffer>>

\* C26: whatever calls of SetActive were made between the Reads, the history
\* of a Delay, Lowpass, Highpass or PitchShift is the history an effect that
\* was active throughout has after the same frames.
C26_HistoryWhileInactive ==
  ret.fault = "none" =>
    History(fx["e1"]) = History(AsOneChunk.e)

\* ------------------------------------------------------------------------
\* Players and channels of SpecPlayer used without an order of phases: the
\* player is routed anew, and effects are added to channels, between Reads
\* as well as before them.

ClosedInit == PlayerInit

\* players[p].SetDSPChannel(c) at any time.
Reroute(p, c) ==
  /\ Running
  /\ used.copies < MaxCopies
  /\ players[p].dspChannel # c
  /\ players' = [players EXCEPT ![p] = SetDSPChannel(@, c)]
  /\ ret' = NoCall
  /\ used' = [used EXCEPT !.copies = @ + 1]
  /\ UNCHANGED <<fx, bytes, channels, streams, audio, props>>

\* channels[c].AddEffect(id, effect) at any time.
AddLate(c, id, effect) ==
  /\ Running
  /\ used.adds < MaxAdds
  /\ effect \notin Range(channels[c].EffectOrder)
  /\ channels' = [channels EXCEPT ![c] = DSPChannelAddEffect(@, id, effect)]
  /\ ret' = NoCall
  /\ used' = [used EXCEPT !.adds = @ + 1]
  /\ UNCHANGED <<fx, bytes, players, streams, audio, props>>

ClosedNext ==
  \/ \E p \in PlayerIds, c \in ChannelIds \cup {None} : Reroute(p, c)
  \/ \E c \in ChannelIds, effect \in EffIds : AddLate(c, "k1", effect)
  \/ \E c \in ChannelIds, active \in BOOLEAN : SetChannelActive(c, active)
  \/ \E c \in ChannelIds : CloseChannel(c)
  \/ \E p \in PlayerIds, up \in PlayerUps : Read(p, up)

SpecClosed == ClosedInit /\ [][ClosedNext]_vars

\* C27: a player whose Read has closed it because its channel was closed
\* answers every later Read with 0 bytes and io.EOF, without a call on the
\* released source and without a panic, whatever was done to the player and
\* the channels in between.
C27_ClosedIsAbsorbing ==
  [][\A p \in PlayerIds :
       (players[p].closed /\ ret'.op = "Read" /\ ret'.who = p)
         => /\ ret'.n = 0 /\ ret'.err = "EOF"
            /\ ret'.fault = "none"
            /\ ret'.calls = <<>>
            /\ bytes' = bytes]_vars

\* ------------------------------------------------------------------------
\* The list of playing players under SpecPlaying.

\* Every entry of the list is playing and no player is listed twice.
Kept(list, pls) ==
  /\ \A k \in DOMAIN list : pls[list[k]].playing
  /\ \A j, k \in DOMAIN list : list[j] = list[k] => j = k

\* The list of c1 as the clean inside Play leaves it.
CleanedByPlay ==
  clean(channels["c1"], players, Len(channels["c1"].playingPlayers))

\* C28: the list of playing players as clean leaves it, in Play of a routed
\* player and in IsPlayingPlayer, holds only players that are playing, and
\* none of them twice.
C28_ListKeptClean ==
  [][/\ (ret'.op = "Play" /\ players[ret'.who].dspChannel # None)
          => Kept(CleanedByPlay.playingPlayers, players)
     /\ ret'.op = "IsPlayingPlayer"
          => Kept(channels'["c1"].playingPlayers, players')]_vars

\* ------------------------------------------------------------------------
\* The chain ChainEffects leaves, under SpecChain.

\* The k-th upstream of id: Source followed k times, stopping at whatever is
\* not an effect.
RECURSIVE Upstream(_, _, _)
Upstream(heap, id, k) ==
  IF k = 0 \/ id \notin DOMAIN heap THEN id
  ELSE Upstream(heap, heap[id].Source, k - 1)

\* How many times the raw stream was read in a list of calls.
Pulls(calls) == Cardinality({k \in DOMAIN calls : calls[k] = "stream"})

\* C30: after ChainEffects on a list, the upstreams followed from the
\* returned effect are the listed effects in reverse order, each met once,
\* and after them the upstream the first effect had before the call, which
\* is none of them; a Read on the returned effect returns, having read the
\* raw stream once.
C30_ChainIsAcyclic ==
  [][/\ ret'.op = "ChainEffects"
          => /\ \A i \in DOMAIN used'.chain :
                  Upstream(fx', ret'.who, i - 1)
                    = used'.chain[Len(used'.chain) + 1 - i]
             /\ \A i, j \in DOMAIN used'.chain :
                  used'.chain[i] = used'.chain[j] => i = j
             /\ Upstream(fx', ret'.who, Len(used'.chain))
                  = fx[used'.chain[1]].Source
             /\ fx[used'.chain[1]].Source \notin Range(used'.chain)
     /\ ret'.op = "Read"
          => /\ ret'.fault = "none"
             /\ Pulls(ret'.calls) = 1]_vars

====
